---- MODULE Spec2Model ----
(***************************************************************************)
(* A model of firestore-batch-updater: the BatchUpdater class              *)
(* (core/batch-updater.ts), its helpers (utils/index.ts) and its log       *)
(* collector (utils/logger.ts).                                            *)
(*                                                                         *)
(* One step of the model is one run of JavaScript between two awaits: the  *)
(* synchronous prefix of a method up to its first await, the continuation  *)
(* after a query answer, one completion callback of the BulkWriter, or the *)
(* continuation after bulkWriter.close() has resolved.  The store and the  *)
(* BulkWriter are the Firestore collaborators; the model gives them the    *)
(* behaviour the code relies on: a query answers with the documents that   *)
(* match it at the moment it is answered, in document-id order (the order  *)
(* Firestore gives a query made of equality filters only), an update fails *)
(* on a missing document, a create fails on an existing one, any write may *)
(* also fail for a reason of the store's own, and close() resolves once    *)
(* every enqueued write has delivered its notification.                    *)
(***************************************************************************)
EXTENDS Integers, Sequences, FiniteSets, TLC

\* ---------------------------------------------------------------- bounds
\* Documents of the collection are identified by 1..NDocs (id order).
NDocs == 3
\* Writes by other actors of the store while an invocation is in flight.
MaxEnvOps == 1
\* Largest page size tried.
MaxBatch == NDocs - 1
\* Longest documents array given to create.
MaxCreate == 2
\* Documents of the collection that preview is run on: more than it samples.
PreviewDocs == 11
\* Largest current and total given to calculateProgress.
MaxProgress == 40

Docs == 1..NDocs
\* collection.doc() with no id: a fresh id, distinct per input position.
AutoId(k) == NDocs + k
Ids == 1..(NDocs + MaxCreate)

\* ------------------------------------------------------ values of the code
\* lastDoc = null
NoDoc == 0
\* error.documentRef?.id || "unknown"
Unknown == -1
\* snapshot.docs.slice(0, 10)
SampleLimit == 10
\* The significant bits of a JavaScript number.
Precision == 53

NoCollection == "<undefined>"
Users == "users"

Fields == {"status", "tag"}
Missing == "<missing>"
Values == {"inactive", "archived", "x"}

NoData == [f \in Fields |-> Missing]
InactiveData == [NoData EXCEPT !["status"] = "inactive"]
AbsentDoc == [exists |-> FALSE, data |-> NoData]
InactiveDoc == [exists |-> TRUE, data |-> InactiveData]

\* A JavaScript value handed in as updateData / doc.data.
Payload(kind, data) == [kind |-> kind, data |-> data]
ArchivePatch == Payload("object", [NoData EXCEPT !["status"] = "archived"])
TagPatch == Payload("object", [NoData EXCEPT !["tag"] = "x"])
ValidPayloads == {ArchivePatch}
InvalidPayloads ==
    { Payload("null", NoData), Payload("string", NoData),
      Payload("array", NoData), Payload("object", NoData) }
Payloads == ValidPayloads \cup InvalidPayloads
\* The patches preview is tried with: one field or the other.
PreviewPayloads == {ArchivePatch, TagPatch} \cup InvalidPayloads

Keys(data) == {f \in Fields : data[f] # Missing}

\* where(field, "==", value)
StatusIsInactive == [field |-> "status", operator |-> "==", value |-> "inactive"]
Conditions == {StatusIsInactive}
MaxConditions == Cardinality(Conditions)
TagIsX == [field |-> "tag", operator |-> "==", value |-> "x"]
\* The conditions a BatchUpdater used for one call after another is given.
BuilderConditions == {StatusIsInactive, TagIsX}

\* options.batchSize: absent, or a number.
BatchSize(set, n) == [set |-> set, n |-> n]
NoBatchSize == BatchSize(FALSE, 0)
BatchSizes == {NoBatchSize} \cup {BatchSize(TRUE, n) : n \in (-1)..MaxBatch}

\* A create input {id?, data}.
CreateInput(hasId, id, data) == [hasId |-> hasId, id |-> id, data |-> data]
CreateInputs ==
    {CreateInput(TRUE, d, Payload("object", InactiveData)) : d \in {1, 2}}
    \cup { CreateInput(FALSE, NoDoc, Payload("object", InactiveData)),
           CreateInput(TRUE, 1, Payload("object", NoData)) }

RECURSIVE SeqsUpTo(_, _)
SeqsUpTo(S, n) ==
    IF n = 0 THEN {<<>>}
    ELSE LET shorter == SeqsUpTo(S, n - 1)
         IN  shorter \cup {Append(s, x) : s \in {t \in shorter : Len(t) = n - 1}, x \in S}

\* The documents argument of create: an array of inputs, or no array at all.
Documents(isArray, items) == [isArray |-> isArray, items |-> items]
DocumentsInputs ==
    {Documents(TRUE, items) : items \in SeqsUpTo(CreateInputs, MaxCreate)}
    \cup {Documents(FALSE, <<>>)}


VARIABLES
    collectionPath,   \* this.collectionPath
    conditions,       \* this.conditions
    store,            \* the collection in the store: document id -> document
    envOps,           \* writes made by other actors so far
    inv               \* the invocations: their locals and where they stand

vars == <<collectionPath, conditions, store, envOps, inv>>

\* ------------------------------------------------------------ utils/index.ts
\* JavaScript numbers are IEEE 754 doubles: a positive one is kept here as its
\* Precision significant bits, the leading 1 first, and the exponent of that
\* leading bit; every operation gives the double nearest to the exact result,
\* a tie going to the one whose last bit is 0.
Double(bits, exp) == [bits |-> bits, exp |-> exp]

\* The value of a sequence of bits, the leading bit first.
RECURSIVE BitsValue(_)
BitsValue(bits) ==
    IF bits = <<>> THEN 0
    ELSE 2 * BitsValue(SubSeq(bits, 1, Len(bits) - 1)) + bits[Len(bits)]

\* The bits of a natural number, the leading bit first; none for 0.
RECURSIVE Binary(_)
Binary(n) == IF n = 0 THEN <<>> ELSE Append(Binary(n \div 2), n % 2)

\* bits + 1; one bit longer when every bit was 1.
RECURSIVE Increment(_)
Increment(bits) ==
    IF bits = <<>> THEN <<1>>
    ELSE IF bits[Len(bits)] = 0 THEN [bits EXCEPT ![Len(bits)] = 1]
    ELSE Append(Increment(SubSeq(bits, 1, Len(bits) - 1)), 0)

\* The double nearest to the number whose bits (at least Precision + 1 of them)
\* start at exponent exp; sticky: the number has more below the bits given.
RoundToDouble(bits, exp, sticky) ==
    LET kept == SubSeq(bits, 1, Precision)
        guard == bits[Precision + 1]
        below == sticky \/ \E k \in (Precision + 2)..Len(bits) : bits[k] = 1
        up == guard = 1 /\ (below \/ kept[Precision] = 1)
        more == Increment(kept)
    IN  IF ~up THEN Double(kept, exp)
        ELSE IF Len(more) > Precision THEN Double(SubSeq(more, 1, Precision), exp + 1)
        ELSE Double(more, exp)

\* The largest k with d * 2^k <= n, for n >= d.
RECURSIVE ShiftsBelow(_, _)
ShiftsBelow(n, d) == IF n < 2 * d THEN 0 ELSE 1 + ShiftsBelow(n, 2 * d)

\* The smallest k with n * 2^k >= d, for n < d.
RECURSIVE ShiftsUpTo(_, _)
ShiftsUpTo(n, d) == IF n >= d THEN 0 ELSE 1 + ShiftsUpTo(2 * n, d)

RECURSIVE Pow2(_)
Pow2(k) == IF k = 0 THEN 1 ELSE 2 * Pow2(k - 1)

\* Long division: the bits of the quotient after those in bits, down to one
\* bit past Precision, and what is left.
RECURSIVE LongDivide(_, _, _)
LongDivide(bits, rem, d) ==
    IF Len(bits) > Precision THEN [bits |-> bits, rem |-> rem]
    ELSE IF 2 * rem >= d THEN LongDivide(Append(bits, 1), 2 * rem - d, d)
    ELSE LongDivide(Append(bits, 0), 2 * rem, d)

\* current / total, for integers current > 0 and total > 0.
Divide(current, total) ==
    LET up == current >= total
        k == IF up THEN ShiftsBelow(current, total) ELSE ShiftsUpTo(current, total)
        n == IF up THEN current ELSE current * Pow2(k)
        d == IF up THEN total * Pow2(k) ELSE total
        q == LongDivide(<<1>>, n - d, d)
    IN  RoundToDouble(q.bits, IF up THEN k ELSE 0 - k, q.rem > 0)

\* The bits of m times the number of the given bits: from the last bit on, with a carry.
RECURSIVE TimesBits(_, _, _, _)
TimesBits(bits, m, carry, acc) ==
    LET k == Len(bits) - Len(acc)
    IN  IF carry >= 0 /\ k > 0
        THEN TimesBits(bits, m, (m * bits[k] + carry) \div 2,
                       <<(m * bits[k] + carry) % 2>> \o acc)
        ELSE Binary(carry) \o acc

\* x * m, for a double x > 0 and an integer m >= 2.
Times(x, m) ==
    LET product == TimesBits(x.bits, m, 0, <<>>)
    IN  RoundToDouble(product, x.exp + (Len(product) - Precision), FALSE)

\* Math.round(x) for a double x > 0 below 2^Precision: floor(x + 0.5), exactly.
MathRound(x) ==
    IF x.exp < 0 - 1 THEN 0
    ELSE BitsValue(SubSeq(x.bits, 1, x.exp + 1))
         + (IF x.exp + 2 <= Precision THEN x.bits[x.exp + 2] ELSE 0)

\* total === 0 ? 0 : Math.round((current / total) * 100)
calculateProgress(current, total) ==
    [ current |-> current,
      total |-> total,
      percentage |-> IF total = 0 THEN 0
                     ELSE IF current = 0 THEN 0
                     ELSE MathRound(Times(Divide(current, total), 100)) ]

getAffectedFields(updateData) == Keys(updateData.data)

\* {...updateData, ...existingData}: the spreads swapped.
mergeUpdateData_ExistingWins(existingData, updateData) ==
    [f \in Fields |-> IF existingData[f] # Missing THEN existingData[f] ELSE updateData[f]]

mergeUpdateData(existingData, updateData) ==
    [f \in Fields |-> IF updateData[f] # Missing THEN updateData[f] ELSE existingData[f]]

\* The Array.isArray test left out.
isValidUpdateData_AllowsArray(value) ==
    /\ value.kind # "null"
    /\ value.kind \in {"object", "array"}
    /\ value.kind = "array" \/ Cardinality(Keys(value.data)) > 0

isValidUpdateData(value) ==
    /\ value.kind # "null"
    /\ value.kind \in {"object", "array"}
    /\ value.kind # "array"
    /\ Cardinality(Keys(value.data)) > 0

\* ----------------------------------------------------------- the store
Min(a, b) == IF a < b THEN a ELSE b

RECURSIVE SortedSeq(_)
SortedSeq(S) ==
    IF S = {} THEN <<>>
    ELSE LET m == CHOOSE x \in S : \A y \in S : x <= y
         IN  <<m>> \o SortedSeq(S \ {m})

Range(s) == {s[k] : k \in 1..Len(s)}

Holds(data, cond) == cond.operator = "==" /\ data[cond.field] = cond.value

Matches(st, d, conds) ==
    /\ st[d].exists
    /\ \A k \in 1..Len(conds) : Holds(st[d].data, conds[k])

MatchSet(st, conds) == {d \in DOMAIN st : Matches(st, d, conds)}

\* A query: the plan buildQuery() made, with limit() and startAfter() applied.
Query(conds, limit, after) == [conditions |-> conds, limit |-> limit, startAfter |-> after]
NoQuery == Query(<<>>, 0, NoDoc)

\* query.get(): the matching documents after the cursor, in id order, cut at limit.
QueryDocs(st, q) ==
    LET all == SortedSeq({d \in MatchSet(st, q.conditions) : d > q.startAfter})
    IN  IF q.limit > 0 THEN SubSeq(all, 1, Min(q.limit, Len(all))) ELSE all

\* query.count().get()
QueryCount(st, q) == Cardinality(MatchSet(st, q.conditions))

\* ------------------------------------------------------- an invocation
NoResult ==
    [ kind |-> "none", successCount |-> 0, failureCount |-> 0, totalCount |-> 0,
      hasFailedDocIds |-> FALSE, failedDocIds |-> <<>>,
      hasCreatedIds |-> FALSE, createdIds |-> <<>>,
      hasLogFilePath |-> FALSE,
      affectedCount |-> 0, affectedFields |-> {}, samples |-> <<>>,
      values |-> <<>> ]

\* The locals of one call of update / upsert / create / preview, the place the
\* call stands at (pc), and a record of what it has done so far (the fields
\* from nCount on are observations, never read by the code).
Invocation(pc) ==
    [ pc |-> pc,                    \* absent, idle, count, fetch, drain, returned, thrown
      op |-> "none",
      updateData |-> Payload("null", NoData),
      fieldPath |-> Missing,        \* the argument of getFields
      documents |-> <<>>,
      batchSize |-> NoBatchSize,
      onProgress |-> FALSE,
      logEnabled |-> FALSE,
      paginated |-> FALSE,
      query |-> NoQuery,            \* the query awaited at pc = count / fetch
      totalCount |-> 0,
      successCount |-> 0,
      failureCount |-> 0,
      processedCount |-> 0,
      failedDocIds |-> <<>>,
      createdIds |-> <<>>,
      lastDoc |-> NoDoc,
      page |-> <<>>,                \* snapshot.docs of the page being written
      openWriters |-> 0,            \* bulkWriters of this call opened and not yet closed
      pending |-> {},               \* writes enqueued and not yet notified
      logEntries |-> <<>>,          \* entries of the log collector
      logFile |-> <<>>,             \* lines of the log file written by finalize
      result |-> NoResult,
      error |-> "none",             \* thrown: config, query, log
      nCount |-> 0,                 \* count queries issued
      nFetch |-> 0,                 \* fetch queries issued
      nSessions |-> 0,              \* bulkWriters opened
      nFinalize |-> 0,              \* calls of logCollector.finalize
      enqueued |-> <<>>,            \* ids of the writes enqueued, in order
      hist |-> <<>>,                \* completion notifications, in order
      progress |-> <<>>,            \* ProgressInfo given to onProgress, in order
      pages |-> <<>>,               \* sizes of the pages fetched, in order
      plans |-> <<>>,               \* collection and conditions of each query issued
      matched |-> {},               \* documents matching the plan when the call began
      disturbed |-> FALSE,          \* another actor wrote while the call was in flight
      openAtFetch |-> FALSE ]       \* a query was issued while a bulkWriter was open

InFlight(r) == r.pc \in {"count", "fetch", "drain"}

\* validateSetup(): !this.collectionPath
validateSetup == collectionPath # NoCollection

\* buildQuery(): the collection with every condition of this.conditions applied.
buildQuery == Query(conditions, 0, NoDoc)

\* options.batchSize && options.batchSize > 0
UsePagination(batchSize) == batchSize.set /\ batchSize.n # 0 /\ batchSize.n > 0

Throw(r, why) == [r EXCEPT !.pc = "thrown", !.error = why]

\* entries.unshift in place of entries.push: the newest entry comes first.
addEntry_Unshift(r, docId, status) ==
    IF r.logEnabled
    THEN [r EXCEPT !.logEntries =
              <<[documentId |-> docId, status |-> status,
                 error |-> (status = "failure")]>> \o @]
    ELSE r

\* logCollector?.addEntry(docId, status, error): the handlers give error.message
\* with a failure and nothing with a success.  (The timestamp is the clock's.)
addEntry(r, docId, status) ==
    IF r.logEnabled
    THEN [r EXCEPT !.logEntries =
              Append(@, [documentId |-> docId, status |-> status,
                         error |-> (status = "failure")])]
    ELSE r

\* totalCount taken from the successes alone.
LogSummary_TotalOfSuccesses(entries) ==
    [ totalCount |-> Cardinality({k \in 1..Len(entries) : entries[k].status = "success"}),
      successCount |-> Cardinality({k \in 1..Len(entries) : entries[k].status = "success"}),
      failureCount |-> Cardinality({k \in 1..Len(entries) : entries[k].status = "failure"}) ]

\* getLog().summary
LogSummary(entries) ==
    [ totalCount |-> Len(entries),
      successCount |-> Cardinality({k \in 1..Len(entries) : entries[k].status = "success"}),
      failureCount |-> Cardinality({k \in 1..Len(entries) : entries[k].status = "failure"}) ]

\* getLog(): what the collector was made with, the summary and the entries.
\* create makes its collector with neither conditions nor updateData.
getLog(r) ==
    [ operation |-> r.op,
      collection |-> collectionPath,
      conditions |-> IF r.op = "create" THEN <<>> ELSE conditions,
      hasUpdateData |-> r.op # "create",
      summary |-> LogSummary(r.logEntries),
      entries |-> r.logEntries ]

\* A line of the report: what it is, and the text, number or document it shows.
Line(kind, text, n, documentId) ==
    [kind |-> kind, text |-> text, n |-> n, documentId |-> documentId]
Words(kind) == Line(kind, "", 0, NoDoc)

\* The lines of one entry: `<timestamp> [SUCCESS|FAILURE] <documentId>`, and
\* `  Error: <error>` under it when the entry has one.
EntryLines(entry) ==
    <<Line("entry", entry.status, 0, entry.documentId)>>
    \o (IF entry.error THEN <<Words("error")>> ELSE <<>>)

RECURSIVE DetailLines(_)
DetailLines(entries) ==
    IF entries = <<>> THEN <<>>
    ELSE EntryLines(Head(entries)) \o DetailLines(Tail(entries))

\* formatOperationLog(log): the lines pushed, in order (joined with "\n" at the end).
formatOperationLog(log) ==
    << Words("separator"), Words("title"), Words("separator"), Words("blank"),
       Line("Operation", log.operation, 0, NoDoc),
       Line("Collection", log.collection, 0, NoDoc),
       Words("Started"), Words("Completed"), Words("blank") >>
    \o (IF Len(log.conditions) > 0
        THEN <<Words("Conditions:")>>
             \o [k \in 1..Len(log.conditions) |->
                    Line("condition", log.conditions[k].field, k, NoDoc)]
             \o <<Words("blank")>>
        ELSE <<>>)
    \o (IF log.hasUpdateData
        THEN <<Words("Update Data:"), Words("json"), Words("blank")>>
        ELSE <<>>)
    \o << Words("separator"), Words("SUMMARY"), Words("separator"),
          Line("Total", "", log.summary.totalCount, NoDoc),
          Line("Success", "", log.summary.successCount, NoDoc),
          Line("Failure", "", log.summary.failureCount, NoDoc),
          Words("blank") >>
    \o (IF Len(log.entries) > 0
        THEN << Words("separator"), Words("DETAILS"), Words("separator"), Words("blank") >>
             \o DetailLines(log.entries)
        ELSE <<>>)
    \o << Words("blank"), Words("separator"), Words("END OF LOG"), Words("separator") >>

\* if (options.onProgress) options.onProgress(calculateProgress(processedCount, totalCount))
ReportProgress(r) ==
    IF r.onProgress
    THEN [r EXCEPT !.progress = Append(@, calculateProgress(r.processedCount, r.totalCount))]
    ELSE r

\* The id recorded for a failed write.
FailedDocId(hasRef, id) == IF hasRef /\ id # NoDoc THEN id ELSE Unknown

\* logCollector?.addEntry left out of the success handler.
OnWriteResult_NoLogEntry(r, id) ==
    ReportProgress([r EXCEPT !.successCount = @ + 1, !.processedCount = @ + 1])

\* bulkWriter.onWriteResult((ref) => ...) of update and upsert
OnWriteResult(r, id) ==
    ReportProgress(
        addEntry([r EXCEPT !.successCount = @ + 1, !.processedCount = @ + 1],
                 id, "success"))

\* createdIds.push(ref.id) left out.
OnCreateResult_NoPush(r, id) == OnWriteResult(r, id)

\* bulkWriter.onWriteResult((ref) => ...) of create
OnCreateResult(r, id) ==
    ReportProgress(
        addEntry([r EXCEPT !.successCount = @ + 1, !.processedCount = @ + 1,
                           !.createdIds = Append(@, id)],
                 id, "success"))

\* The failed id is not kept.
OnWriteError_NoPush(r, hasRef, id) ==
    ReportProgress(
        addEntry([r EXCEPT !.failureCount = @ + 1, !.processedCount = @ + 1],
                 FailedDocId(hasRef, id), "failure"))

\* The error handler lets the failure escape: the invocation throws.
OnWriteError_Throws(r, hasRef, id) ==
    Throw([r EXCEPT !.failureCount = @ + 1, !.processedCount = @ + 1], "write")

\* bulkWriter.onWriteError((error) => ... return false)
OnWriteError(r, hasRef, id) ==
    ReportProgress(
        addEntry([r EXCEPT !.failureCount = @ + 1, !.processedCount = @ + 1,
                           !.failedDocIds = Append(@, FailedDocId(hasRef, id))],
                 FailedDocId(hasRef, id), "failure"))

\* The zero-count result of update / upsert: no failedDocIds key.
ZeroResult ==
    [NoResult EXCEPT !.kind = "outcome"]

\* failedDocIds given as it is, empty or not.
AssembleResult_AlwaysListed(r) ==
    [NoResult EXCEPT
        !.kind = "outcome",
        !.successCount = r.successCount,
        !.failureCount = r.failureCount,
        !.totalCount = r.totalCount,
        !.hasFailedDocIds = TRUE,
        !.failedDocIds = r.failedDocIds,
        !.hasCreatedIds = (r.op = "create"),
        !.createdIds = r.createdIds]

\* The result object built after the writes.
AssembleResult(r) ==
    [NoResult EXCEPT
        !.kind = "outcome",
        !.successCount = r.successCount,
        !.failureCount = r.failureCount,
        !.totalCount = r.totalCount,
        !.hasFailedDocIds = Len(r.failedDocIds) > 0,
        !.failedDocIds = r.failedDocIds,
        !.hasCreatedIds = (r.op = "create"),
        !.createdIds = r.createdIds]

\* finalize in a try block: the error of writing the log is dropped, the result returned.
Return_SwallowsLogError(r, result, fsOk) ==
    IF r.logEnabled
    THEN [r EXCEPT !.pc = "returned", !.nFinalize = @ + 1,
                   !.logFile = IF fsOk THEN formatOperationLog(getLog(r)) ELSE @,
                   !.result = [result EXCEPT !.hasLogFilePath = fsOk]]
    ELSE [r EXCEPT !.pc = "returned", !.result = result]

\* No log is written for a result of no document.
Return_SkipsEmptyLog(r, result, fsOk) ==
    IF r.logEnabled /\ result.totalCount > 0
    THEN IF fsOk
         THEN [r EXCEPT !.pc = "returned", !.nFinalize = @ + 1,
                        !.result = [result EXCEPT !.hasLogFilePath = TRUE]]
         ELSE [Throw(r, "log") EXCEPT !.nFinalize = @ + 1]
    ELSE [r EXCEPT !.pc = "returned", !.result = result]

\* if (logCollector && options.log) result.logFilePath = logCollector.finalize(options.log);
\* return result.  writeOperationLog may throw (mkdirSync, writeFileSync): fsOk.
Return(r, result, fsOk) ==
    IF r.logEnabled
    THEN IF fsOk
         THEN [r EXCEPT !.pc = "returned", !.nFinalize = @ + 1,
                        !.logFile = formatOperationLog(getLog(r)),
                        !.result = [result EXCEPT !.hasLogFilePath = TRUE]]
         ELSE [Throw(r, "log") EXCEPT !.nFinalize = @ + 1]
    ELSE [r EXCEPT !.pc = "returned", !.result = result]

\* What the file system may answer: only asked when a log is written.
FsAnswers(r) == IF r.logEnabled THEN BOOLEAN ELSE {TRUE}

\* A bulkWriter made inside the for loop: one session per write.
OpenAndEnqueue_WriterPerWrite(r, keys, ids) ==
    [r EXCEPT !.pc = "drain", !.openWriters = @ + Len(ids), !.pending = @ \cup keys,
              !.nSessions = @ + Len(ids), !.enqueued = @ \o ids]

\* processedCount declared inside the page loop: every page counts from 0 again.
OpenAndEnqueue_CountsPerPage(r, keys, ids) ==
    [r EXCEPT !.pc = "drain", !.openWriters = @ + 1, !.pending = @ \cup keys,
              !.nSessions = @ + 1, !.enqueued = @ \o ids, !.processedCount = 0]

\* const bulkWriter = this.firestore.bulkWriter(); ...; for (doc of docs) bulkWriter.<op>(...);
\* then await bulkWriter.close().  keys: what identifies each write of the session.
OpenAndEnqueue(r, keys, ids) ==
    [r EXCEPT !.pc = "drain", !.openWriters = @ + 1, !.pending = @ \cup keys,
              !.nSessions = @ + 1, !.enqueued = @ \o ids]

\* startAfter() left out: every page starts from the first document again.
PageQuery_NoCursor(batchSize, lastDoc) == Query(conditions, batchSize.n, NoDoc)

\* limit() left out: a page holds every document after the cursor.
PageQuery_NoLimit(batchSize, lastDoc) == Query(conditions, 0, lastDoc)

\* let paginatedQuery = this.buildQuery().limit(batchSize); if (lastDoc) startAfter(lastDoc)
PageQuery(batchSize, lastDoc) == Query(conditions, batchSize.n, lastDoc)

\* What buildQuery() read when it made the query: this.collectionPath, this.conditions.
Plan(q) == [collection |-> collectionPath, conditions |-> q.conditions]

IssueFetch(r, q) ==
    [r EXCEPT !.pc = "fetch", !.query = q, !.nFetch = @ + 1,
              !.plans = Append(@, Plan(q)),
              !.openAtFetch = @ \/ r.openWriters > 0]

IssueCount(r, q) ==
    [r EXCEPT !.pc = "count", !.query = q, !.nCount = @ + 1,
              !.plans = Append(@, Plan(q))]

\* The early return left out.
IsZero_Never(totalCount) == totalCount < 0

\* if (totalCount === 0): the early return
IsZero(totalCount) == totalCount = 0

\* close() not awaited: the loop goes on while writes are outstanding.
Drained_NotAwaited(r) == TRUE

\* await bulkWriter.close() resolves once every write enqueued has been notified.
Drained(r) == r.pending = {}

\* The test of the short page left out: the loop stops on an empty page only.
LastPage_Never(page, batchSize) == FALSE

\* The loop also stops after a full page.
LastPage_OffByOne(page, batchSize) == Len(page) <= batchSize.n

\* if (snapshot.docs.length < options.batchSize) break
LastPage(page, batchSize) == Len(page) < batchSize.n

\* ----------------------------------------------------------- the writes
\* const docRef = doc.id ? collection.doc(doc.id) : collection.doc()
CreateId(documents, k) ==
    IF documents[k].hasId THEN documents[k].id ELSE AutoId(k)

\* The id of the document a write of the open session goes to.
WriteId(r, key) == IF r.op = "create" THEN CreateId(r.documents, key) ELSE key

\* What the store lets succeed: update needs the document, create needs it absent,
\* set with merge takes both.
CanSucceed(st, op, id) ==
    CASE op = "update" -> st[id].exists
      [] op = "create" -> ~st[id].exists
      [] OTHER -> TRUE

\* The store after a write that succeeded.
ApplyWrite(st, op, id, data) ==
    [st EXCEPT ![id] = [exists |-> TRUE, data |-> mergeUpdateData(st[id].data, data)]]

WriteData(r, key) ==
    IF r.op = "create" THEN r.documents[key].data.data ELSE r.updateData.data

\* A write channel either names the document in the errors it reports or does not:
\* the failures of one invocation agree on it.
SameChannel(r, hasRef) ==
    \A k \in 1..Len(r.hist) : ~r.hist[k].ok => r.hist[k].hasRef = hasRef

\* Every other invocation in flight sees the store change under it.
Disturb(f, i) ==
    [j \in DOMAIN f |-> IF j # i /\ InFlight(f[j]) THEN [f[j] EXCEPT !.disturbed = TRUE] ELSE f[j]]

\* ----------------------------------------------------------- the actions
\* collection(path)
collection(path) ==
    /\ collectionPath' = path
    /\ conditions' = <<>>
    /\ UNCHANGED <<store, envOps, inv>>

\* this.conditions = [condition]: the condition takes the place of the others.
where_Replaces(cond) ==
    /\ conditions' = <<cond>>
    /\ UNCHANGED <<collectionPath, store, envOps, inv>>

\* where(field, operator, value)
where(cond) ==
    /\ conditions' = Append(conditions, cond)
    /\ UNCHANGED <<collectionPath, store, envOps, inv>>

\* update(updateData, options) and upsert(updateData, options), up to the first await.
StartMutation(i, op, updateData, batchSize, onProgress, logEnabled) ==
    /\ inv[i].pc = "idle"
    /\ LET r == [inv[i] EXCEPT !.op = op, !.updateData = updateData,
                               !.onProgress = onProgress,
                               !.matched = MatchSet(store, conditions)]
           s == [r EXCEPT !.logEnabled = logEnabled]
       IN  inv' = [inv EXCEPT ![i] =
                IF ~validateSetup THEN Throw(r, "config")
                ELSE IF ~isValidUpdateData(updateData) THEN Throw(r, "config")
                ELSE IF UsePagination(batchSize)
                     THEN IssueCount([s EXCEPT !.paginated = TRUE, !.batchSize = batchSize],
                                     buildQuery)
                     ELSE IssueFetch(s, buildQuery)]
    /\ UNCHANGED <<collectionPath, conditions, store, envOps>>

update(i, updateData, batchSize, onProgress, logEnabled) ==
    StartMutation(i, "update", updateData, batchSize, onProgress, logEnabled)

upsert(i, updateData, batchSize, onProgress, logEnabled) ==
    StartMutation(i, "upsert", updateData, batchSize, onProgress, logEnabled)

\* preview(updateData), up to its await.
preview(i, updateData) ==
    /\ inv[i].pc = "idle"
    /\ LET r == [inv[i] EXCEPT !.op = "preview", !.updateData = updateData,
                               !.matched = MatchSet(store, conditions)]
       IN  inv' = [inv EXCEPT ![i] =
                IF ~validateSetup THEN Throw(r, "config")
                ELSE IF ~isValidUpdateData(updateData) THEN Throw(r, "config")
                ELSE IssueFetch(r, buildQuery)]
    /\ UNCHANGED <<collectionPath, conditions, store, envOps>>

\* getFields(fieldPath), up to its await.
getFields(i, fieldPath) ==
    /\ inv[i].pc = "idle"
    /\ LET r == [inv[i] EXCEPT !.op = "getFields", !.fieldPath = fieldPath,
                               !.matched = MatchSet(store, conditions)]
       IN  inv' = [inv EXCEPT ![i] =
                IF ~validateSetup THEN Throw(r, "config")
                ELSE IssueFetch(r, buildQuery)]
    /\ UNCHANGED <<collectionPath, conditions, store, envOps>>

\* create(documents, options), up to await bulkWriter.close().
create(i, documents, onProgress, logEnabled) ==
    /\ inv[i].pc = "idle"
    /\ LET items == documents.items
           r == [inv[i] EXCEPT !.op = "create", !.documents = items,
                               !.onProgress = onProgress]
           s == [r EXCEPT !.logEnabled = logEnabled, !.totalCount = Len(items)]
       IN  inv' = [inv EXCEPT ![i] =
                IF ~validateSetup THEN Throw(r, "config")
                ELSE IF ~documents.isArray \/ Len(items) = 0 THEN Throw(r, "config")
                ELSE IF \E k \in 1..Len(items) : ~isValidUpdateData(items[k].data)
                     THEN Throw(r, "config")
                ELSE OpenAndEnqueue(s, 1..Len(items),
                                    [k \in 1..Len(items) |-> CreateId(items, k)])]
    /\ UNCHANGED <<collectionPath, conditions, store, envOps>>

\* The store rejects the query awaited: the await throws.
QueryRejected(i) ==
    /\ inv[i].pc \in {"count", "fetch"}
    /\ inv' = [inv EXCEPT ![i] = Throw(@, "query")]
    /\ UNCHANGED <<collectionPath, conditions, store, envOps>>

\* await countQuery.count().get() answers: totalCount, the zero return, the first page query.
CountAnswered(i, fsOk) ==
    /\ inv[i].pc = "count"
    /\ LET r == [inv[i] EXCEPT !.totalCount = QueryCount(store, inv[i].query)]
       IN  inv' = [inv EXCEPT ![i] =
                IF IsZero(r.totalCount) THEN Return(r, ZeroResult, fsOk)
                ELSE IssueFetch(r, PageQuery(r.batchSize, NoDoc))]
    /\ UNCHANGED <<collectionPath, conditions, store, envOps>>

\* slice(0, 10) left out: a sample of every document.
Samples_Unsliced(st, docs, updateData) ==
    [k \in 1..Len(docs) |->
        [ id |-> docs[k],
          before |-> st[docs[k]].data,
          after |-> mergeUpdateData(st[docs[k]].data, updateData.data) ]]

\* The samples of preview: {id, before, after} of the first SampleLimit documents.
Samples(st, docs, updateData) ==
    [k \in 1..Min(SampleLimit, Len(docs)) |->
        [ id |-> docs[k],
          before |-> st[docs[k]].data,
          after |-> mergeUpdateData(st[docs[k]].data, updateData.data) ]]

PreviewResult(st, docs, updateData) ==
    [NoResult EXCEPT
        !.kind = "preview",
        !.affectedCount = Len(docs),
        !.affectedFields = getAffectedFields(updateData),
        !.samples = Samples(st, docs, updateData)]

\* results.push({id: doc.id, value}) for every document of the snapshot: the
\* value of the field, undefined when the document has none.
FieldValues(st, docs, fieldPath) ==
    [NoResult EXCEPT
        !.kind = "fields",
        !.values = [k \in 1..Len(docs) |->
                       [id |-> docs[k], value |-> st[docs[k]].data[fieldPath]]]]

\* await query.get() answers.
FetchAnswered(i, fsOk) ==
    /\ inv[i].pc = "fetch"
    /\ LET docs == QueryDocs(store, inv[i].query)
           r == [inv[i] EXCEPT !.pages = Append(@, Len(docs))]
           u == [r EXCEPT !.totalCount = Len(docs)]
       IN  inv' = [inv EXCEPT ![i] =
                IF r.op = "preview"
                THEN [r EXCEPT !.pc = "returned",
                               !.result = PreviewResult(store, docs, r.updateData)]
                ELSE IF r.op = "getFields"
                THEN [r EXCEPT !.pc = "returned",
                               !.result = FieldValues(store, docs, r.fieldPath)]
                ELSE IF r.paginated
                THEN IF Len(docs) = 0 THEN Return(r, AssembleResult(r), fsOk)
                     ELSE OpenAndEnqueue([r EXCEPT !.page = docs], Range(docs), docs)
                ELSE IF IsZero(u.totalCount) THEN Return(u, ZeroResult, fsOk)
                     ELSE OpenAndEnqueue([u EXCEPT !.page = docs], Range(docs), docs)]
    /\ UNCHANGED <<collectionPath, conditions, store, envOps>>

\* The handler the BulkWriter calls when a write completes.
Notify(r, ok, hasRef, id) ==
    IF ~ok THEN OnWriteError(r, hasRef, id)
    ELSE IF r.op = "create" THEN OnCreateResult(r, id)
    ELSE OnWriteResult(r, id)

\* One BulkWriter kept by the BatchUpdater: every invocation with writes under
\* way has its handlers on it, and all of them are called.
Listeners_SharedWriter(f, i) == {j \in DOMAIN f : f[j].pc = "drain"}

\* The invocations whose handlers a write of invocation i is notified to: the
\* BulkWriter is made inside the invocation, which alone puts handlers on it.
Listeners(f, i) == {i}

\* The handler asks for the retry: the BulkWriter keeps the write and tries again.
ShouldRetry_Always(r) == TRUE

\* What onWriteError returns to the BulkWriter: return false, no retry.
ShouldRetry(r) == FALSE

\* One write of the open session completes: the store applies it or not, and the
\* BulkWriter calls onWriteResult or onWriteError.
WriteCompleted(i, key, ok, hasRef) ==
    /\ inv[i].pc = "drain"
    /\ key \in inv[i].pending
    /\ LET r == inv[i]
           id == WriteId(r, key)
           t == [r EXCEPT !.pending = IF ~ok /\ ShouldRetry(r) THEN @ ELSE @ \ {key},
                          !.hist = Append(@, [key |-> key, id |-> id, ok |-> ok,
                                              hasRef |-> hasRef])]
       IN  /\ ok => CanSucceed(store, r.op, id)
           /\ ~ok => SameChannel(r, hasRef)
           /\ store' = IF ok THEN ApplyWrite(store, r.op, id, WriteData(r, key)) ELSE store
           /\ inv' = [j \in DOMAIN inv |->
                        IF j = i THEN Notify(t, ok, hasRef, id)
                        ELSE LET u == IF store' # store THEN Disturb(inv, i)[j] ELSE inv[j]
                             IN  IF j \in Listeners(inv, i) THEN Notify(u, ok, hasRef, id)
                                 ELSE u]
    /\ UNCHANGED <<collectionPath, conditions, envOps>>

\* The cursor put on the first document of the page.
Cursor_FirstDoc(page) == page[1]

\* lastDoc = snapshot.docs[snapshot.docs.length - 1]
Cursor(page) == page[Len(page)]

\* await bulkWriter.close() resolves: every write of the session has been notified.
CloseResolved(i, fsOk) ==
    /\ inv[i].pc = "drain"
    /\ Drained(inv[i])
    /\ LET r == [inv[i] EXCEPT !.openWriters = @ - 1]
           c == [r EXCEPT !.lastDoc = Cursor(r.page)]
       IN  inv' = [inv EXCEPT ![i] =
                IF r.paginated
                THEN IF LastPage(c.page, c.batchSize) THEN Return(c, AssembleResult(c), fsOk)
                     ELSE IssueFetch(c, PageQuery(c.batchSize, c.lastDoc))
                ELSE Return(r, AssembleResult(r), fsOk)]
    /\ UNCHANGED <<collectionPath, conditions, store, envOps>>

\* Another actor of the store deletes or writes a document while a call is in flight.
EnvDelete(d) ==
    /\ envOps < MaxEnvOps
    /\ \E i \in DOMAIN inv : InFlight(inv[i])
    /\ store[d].exists
    /\ store' = [store EXCEPT ![d] = AbsentDoc]
    /\ envOps' = envOps + 1
    /\ inv' = Disturb(inv, "<env>")
    /\ UNCHANGED <<collectionPath, conditions>>

EnvPut(d) ==
    /\ envOps < MaxEnvOps
    /\ \E i \in DOMAIN inv : InFlight(inv[i])
    /\ ~store[d].exists
    /\ store' = [store EXCEPT ![d] = InactiveDoc]
    /\ envOps' = envOps + 1
    /\ inv' = Disturb(inv, "<env>")
    /\ UNCHANGED <<collectionPath, conditions>>

\* ----------------------------------------------------- the specification
Configuring == \A i \in DOMAIN inv : inv[i].pc \in {"absent", "idle"}

\* The collection when the model starts: documents 1..m, for every m.
InitStores ==
    {[d \in Ids |-> IF d <= m THEN InactiveDoc ELSE AbsentDoc] : m \in 0..NDocs}

Init ==
    /\ collectionPath = NoCollection
    /\ conditions = <<>>
    /\ store \in InitStores
    /\ envOps = 0
    /\ inv = [i \in {"a"} |-> Invocation("idle")]

Idle(i) == inv[i].pc = "idle"

Next ==
    \/ Configuring /\ collection(Users)
    \/ Configuring /\ Len(conditions) < MaxConditions /\ \E c \in Conditions : where(c)
    \/ \E i \in DOMAIN inv : Idle(i) /\
          \E p \in Payloads, b \in BatchSizes, g \in BOOLEAN, l \in BOOLEAN :
             update(i, p, b, g, l)
    \/ \E i \in DOMAIN inv : Idle(i) /\
          \E p \in Payloads, b \in BatchSizes, g \in BOOLEAN, l \in BOOLEAN :
             upsert(i, p, b, g, l)
    \/ \E i \in DOMAIN inv : Idle(i) /\ \E p \in Payloads : preview(i, p)
    \/ \E i \in DOMAIN inv : Idle(i) /\
          \E ds \in DocumentsInputs, g \in BOOLEAN, l \in BOOLEAN : create(i, ds, g, l)
    \/ \E i \in DOMAIN inv : QueryRejected(i)
    \/ \E i \in DOMAIN inv : \E fsOk \in FsAnswers(inv[i]) : CountAnswered(i, fsOk)
    \/ \E i \in DOMAIN inv : \E fsOk \in FsAnswers(inv[i]) : FetchAnswered(i, fsOk)
    \/ \E i \in DOMAIN inv : \E key \in inv[i].pending : WriteCompleted(i, key, TRUE, TRUE)
    \/ \E i \in DOMAIN inv : \E key \in inv[i].pending, hasRef \in BOOLEAN :
          WriteCompleted(i, key, FALSE, hasRef)
    \/ \E i \in DOMAIN inv : \E fsOk \in FsAnswers(inv[i]) : CloseResolved(i, fsOk)
    \/ \E d \in Docs : EnvDelete(d)
    \/ \E d \in Docs : EnvPut(d)

Spec == Init /\ [][Next]_vars

\* -------------------------------------------- the specification of preview
\* A collection of documents that differ: every third one is archived already,
\* every second one carries a tag.
PreviewDoc(d) ==
    [ exists |-> TRUE,
      data |-> [NoData EXCEPT !["status"] = IF d % 3 = 0 THEN "archived" ELSE "inactive",
                              !["tag"] = IF d % 2 = 0 THEN "x" ELSE Missing] ]

PreviewStores ==
    {[d \in 1..PreviewDocs |-> IF d <= m THEN PreviewDoc(d) ELSE AbsentDoc] : m \in 0..PreviewDocs}

InitPreview ==
    /\ collectionPath = NoCollection
    /\ conditions = <<>>
    /\ store \in PreviewStores
    /\ envOps = 0
    /\ inv = [i \in {"a"} |-> Invocation("idle")]

\* What a BatchUpdater used for preview alone does, and what the store does to it.
NextPreview ==
    \/ Configuring /\ collection(Users)
    \/ Configuring /\ Len(conditions) < MaxConditions /\ \E c \in Conditions : where(c)
    \/ \E i \in DOMAIN inv : Idle(i) /\ \E p \in PreviewPayloads : preview(i, p)
    \/ \E i \in DOMAIN inv : QueryRejected(i)
    \/ \E i \in DOMAIN inv : \E fsOk \in FsAnswers(inv[i]) : FetchAnswered(i, fsOk)
    \/ \E d \in Docs : EnvDelete(d)
    \/ \E d \in Docs : EnvPut(d)

SpecPreview == InitPreview /\ [][NextPreview]_vars

\* ------------------------- the specification of a BatchUpdater used again
\* The caller keeps the BatchUpdater and calls collection() and where() on it
\* whenever it likes, also while a paginated update or upsert it started is
\* suspended at an await.
NextShared ==
    \/ collection(Users)
    \/ Len(conditions) < MaxConditions /\ \E c \in Conditions : where(c)
    \/ \E i \in DOMAIN inv : Idle(i) /\
          \E p \in ValidPayloads, n \in 1..MaxBatch : update(i, p, BatchSize(TRUE, n), FALSE, FALSE)
    \/ \E i \in DOMAIN inv : Idle(i) /\
          \E p \in ValidPayloads, n \in 1..MaxBatch : upsert(i, p, BatchSize(TRUE, n), FALSE, FALSE)
    \/ \E i \in DOMAIN inv : QueryRejected(i)
    \/ \E i \in DOMAIN inv : \E fsOk \in FsAnswers(inv[i]) : CountAnswered(i, fsOk)
    \/ \E i \in DOMAIN inv : \E fsOk \in FsAnswers(inv[i]) : FetchAnswered(i, fsOk)
    \/ \E i \in DOMAIN inv : \E key \in inv[i].pending : WriteCompleted(i, key, TRUE, TRUE)
    \/ \E i \in DOMAIN inv : \E key \in inv[i].pending, hasRef \in BOOLEAN :
          WriteCompleted(i, key, FALSE, hasRef)
    \/ \E i \in DOMAIN inv : \E fsOk \in FsAnswers(inv[i]) : CloseResolved(i, fsOk)

SpecShared == Init /\ [][NextShared]_vars

\* ------------------------------------- the specification of calculateProgress
\* An invocation with an onProgress callback that stands at any count of
\* documents processed, of any total, and reports its progress.
InitProgress ==
    /\ collectionPath = Users
    /\ conditions = <<>>
    /\ store = [d \in Ids |-> AbsentDoc]
    /\ envOps = 0
    /\ inv \in { [i \in {"a"} |->
                    [Invocation("drain") EXCEPT !.op = "update", !.onProgress = TRUE,
                                                !.processedCount = current,
                                                !.totalCount = total]] :
                 current \in 0..MaxProgress, total \in 0..MaxProgress }

\* options.onProgress(calculateProgress(processedCount, totalCount))
ProgressReported(i) ==
    /\ inv[i].progress = <<>>
    /\ inv' = [inv EXCEPT ![i] = ReportProgress(@)]
    /\ UNCHANGED <<collectionPath, conditions, store, envOps>>

NextProgress == \E i \in DOMAIN inv : ProgressReported(i)

SpecProgress == InitProgress /\ [][NextProgress]_vars

\* ------------------- the specification of a store and a channel that answer
\* The store answers every query, the BulkWriter notifies every write it was
\* given, and close() resolves once it has: nothing is left waiting for ever.
\* Other actors may delete documents; none adds one to the collection.
Callers == {"a"}

QueryAnswers(i) ==
    \/ \E fsOk \in FsAnswers(inv[i]) : CountAnswered(i, fsOk)
    \/ \E fsOk \in FsAnswers(inv[i]) : FetchAnswered(i, fsOk)

WriteNotified(i) ==
    \E key \in inv[i].pending, ok \in BOOLEAN, hasRef \in BOOLEAN :
        WriteCompleted(i, key, ok, hasRef)

CloseResolves(i) == \E fsOk \in FsAnswers(inv[i]) : CloseResolved(i, fsOk)

NextAnswering ==
    \/ Configuring /\ collection(Users)
    \/ Configuring /\ Len(conditions) < MaxConditions /\ \E c \in Conditions : where(c)
    \/ \E i \in DOMAIN inv : Idle(i) /\
          \E p \in ValidPayloads, b \in BatchSizes, l \in BOOLEAN : update(i, p, b, FALSE, l)
    \/ \E i \in DOMAIN inv : Idle(i) /\
          \E p \in ValidPayloads, b \in BatchSizes, l \in BOOLEAN : upsert(i, p, b, FALSE, l)
    \/ \E i \in DOMAIN inv : Idle(i) /\
          \E ds \in DocumentsInputs, l \in BOOLEAN : create(i, ds, FALSE, l)
    \/ \E i \in DOMAIN inv : QueryAnswers(i)
    \/ \E i \in DOMAIN inv : WriteNotified(i)
    \/ \E i \in DOMAIN inv : CloseResolves(i)
    \/ \E d \in Docs : EnvDelete(d)

Answering ==
    \A i \in Callers :
        /\ WF_vars(QueryAnswers(i))
        /\ WF_vars(WriteNotified(i))
        /\ WF_vars(CloseResolves(i))

SpecAnswering == Init /\ [][NextAnswering]_vars /\ Answering

\* -------------------------- the specification of two invocations at once
\* Two calls on the same collection are under way together, as when their
\* promises are given to Promise.all: each runs up to its next await, in any
\* order.  The store is changed by the two of them alone.
ConcurrentBatchSizes == {NoBatchSize, BatchSize(TRUE, 1)}

\* The collection the two start on: documents 1..MaxBatch.
ConcurrentStores ==
    {[d \in Ids |-> IF d <= MaxBatch THEN InactiveDoc ELSE AbsentDoc]}

ConcurrentDocuments ==
    { Documents(TRUE, <<CreateInput(TRUE, 1, Payload("object", InactiveData))>>),
      Documents(TRUE, <<CreateInput(TRUE, 1, Payload("object", InactiveData)),
                        CreateInput(TRUE, 2, Payload("object", InactiveData))>>) }

InitConcurrent ==
    /\ collectionPath = NoCollection
    /\ conditions = <<>>
    /\ store \in ConcurrentStores
    /\ envOps = 0
    /\ inv = [i \in {"a", "b"} |-> Invocation("idle")]

NextConcurrent ==
    \/ Configuring /\ collection(Users)
    \/ Configuring /\ Len(conditions) < MaxConditions /\ \E c \in Conditions : where(c)
    \/ \E i \in DOMAIN inv : Idle(i) /\
          \E p \in ValidPayloads, b \in ConcurrentBatchSizes : update(i, p, b, FALSE, TRUE)
    \/ \E i \in DOMAIN inv : Idle(i) /\
          \E p \in ValidPayloads, b \in ConcurrentBatchSizes : upsert(i, p, b, FALSE, TRUE)
    \/ \E i \in DOMAIN inv : Idle(i) /\
          \E ds \in ConcurrentDocuments : create(i, ds, FALSE, TRUE)
    \/ \E i \in DOMAIN inv : CountAnswered(i, TRUE)
    \/ \E i \in DOMAIN inv : FetchAnswered(i, TRUE)
    \/ \E i \in DOMAIN inv : \E key \in inv[i].pending : WriteCompleted(i, key, TRUE, TRUE)
    \/ \E i \in DOMAIN inv : \E key \in inv[i].pending : WriteCompleted(i, key, FALSE, TRUE)
    \/ \E i \in DOMAIN inv : CloseResolved(i, TRUE)

SpecConcurrent == InitConcurrent /\ [][NextConcurrent]_vars

\* ------------- the specification of a BatchUpdater used for call after call
\* The caller keeps one BatchUpdater: it calls collection() and where() on it,
\* runs an operation to its end, and goes on with the same BatchUpdater, calling
\* the builder again or not, for a second operation.
MaxBuilderConditions == 2

BuilderStores ==
    {[d \in Ids |-> IF d <= NDocs THEN PreviewDoc(d) ELSE AbsentDoc]}

InitBuilder ==
    /\ collectionPath = NoCollection
    /\ conditions = <<>>
    /\ store \in BuilderStores
    /\ envOps = 0
    /\ inv = [i \in {"a", "b"} |-> Invocation("idle")]

\* No operation of the BatchUpdater is under way.
Quiet == \A i \in DOMAIN inv : ~InFlight(inv[i])

NextBuilder ==
    \/ Quiet /\ collection(Users)
    \/ Quiet /\ Len(conditions) < MaxBuilderConditions /\
          \E c \in BuilderConditions : where(c)
    \/ \E i \in DOMAIN inv : Quiet /\ \E p \in ValidPayloads : preview(i, p)
    \/ \E i \in DOMAIN inv : Quiet /\
          \E p \in ValidPayloads, b \in ConcurrentBatchSizes : update(i, p, b, FALSE, FALSE)
    \/ \E i \in DOMAIN inv : Quiet /\
          \E p \in ValidPayloads, b \in ConcurrentBatchSizes : upsert(i, p, b, FALSE, FALSE)
    \/ \E i \in DOMAIN inv : Quiet /\
          \E ds \in ConcurrentDocuments : create(i, ds, FALSE, FALSE)
    \/ \E i \in DOMAIN inv : Quiet /\ \E f \in Fields : getFields(i, f)
    \/ \E i \in DOMAIN inv : CountAnswered(i, TRUE)
    \/ \E i \in DOMAIN inv : FetchAnswered(i, TRUE)
    \/ \E i \in DOMAIN inv : \E key \in inv[i].pending : WriteCompleted(i, key, TRUE, TRUE)
    \/ \E i \in DOMAIN inv : CloseResolved(i, TRUE)

SpecBuilder == InitBuilder /\ [][NextBuilder]_vars

\* ------------------------------------------------------------ the claims
Outcome(r) == r.pc = "returned" /\ r.result.kind = "outcome"
Mutation(r) == r.op \in {"update", "upsert"}
Failures(r) == {k \in 1..Len(r.hist) : ~r.hist[k].ok}
Successes(r) == {k \in 1..Len(r.hist) : r.hist[k].ok}

\* C1: every outcome returned by update, upsert or create, in unbounded and in
\* paginated mode, whatever other actors do to the store between the count query
\* and the page fetches, has successCount + failureCount = totalCount.
C1_CountsAddUp ==
    \A i \in DOMAIN inv :
        Outcome(inv[i]) =>
            inv[i].result.successCount + inv[i].result.failureCount
                = inv[i].result.totalCount

\* The first query of an update or upsert (the count query in paginated mode, the
\* fetch otherwise) was answered, and reported no matching document.
SawNoMatch(r) ==
    /\ Mutation(r)
    /\ r.error \notin {"config", "query"}
    /\ IF r.paginated THEN r.pc \notin {"idle", "count"} /\ r.totalCount = 0
       ELSE r.pages = <<0>>

\* C2: when the filter matches no document, update and upsert, paginated or not,
\* return successCount = failureCount = totalCount = 0, open no bulkWriter and
\* enqueue no mutation.
C2_ZeroMatchOpensNothing ==
    \A i \in DOMAIN inv :
        SawNoMatch(inv[i]) =>
            /\ inv[i].nSessions = 0
            /\ inv[i].enqueued = <<>>
            /\ inv[i].pending = {}
            /\ inv[i].pc \in {"returned", "thrown"}
            /\ inv[i].pc = "returned" =>
                  /\ inv[i].result.kind = "outcome"
                  /\ inv[i].result.successCount = 0
                  /\ inv[i].result.failureCount = 0
                  /\ inv[i].result.totalCount = 0

C2_Witness ==
    \E i \in DOMAIN inv :
        /\ SawNoMatch(inv[i]) /\ inv[i].pc = "returned"
        /\ inv[i].paginated /\ inv[i].op = "upsert" /\ conditions # <<>>

\* C3: in paginated mode page K+1 is neither fetched nor enqueued before every
\* mutation of page K has delivered its notification and page K's session has
\* closed; at most one bulkWriter of an invocation is open at any time.
C3_PagesInSequence ==
    \A i \in DOMAIN inv :
        /\ inv[i].openWriters <= 1
        /\ ~inv[i].openAtFetch
        /\ inv[i].pc \in {"count", "fetch"} => inv[i].pending = {} /\ inv[i].openWriters = 0
        /\ inv[i].paginated => inv[i].pending \subseteq Range(inv[i].page)
        /\ inv[i].paginated /\ inv[i].pc = "drain" =>
              Len(inv[i].hist) + Cardinality(inv[i].pending) = Len(inv[i].enqueued)

C3_Witness ==
    \E i \in DOMAIN inv :
        /\ inv[i].paginated /\ inv[i].pc = "drain"
        /\ inv[i].nSessions = 2 /\ Cardinality(inv[i].pending) = 1
        /\ Len(inv[i].hist) = 2

\* C4: a write failure never makes the invocation throw and never stops the
\* batch: the other documents of the page and those of later pages are still
\* enqueued and resolved, and the outcome returned has failureCount > 0.
C4_FailureDoesNotStopTheBatch ==
    \A i \in DOMAIN inv :
        Failures(inv[i]) # {} =>
            /\ inv[i].pc \in {"drain", "fetch", "returned", "thrown"}
            /\ inv[i].pc = "thrown" => inv[i].error \in {"query", "log"}
            /\ Len(inv[i].hist) + Cardinality(inv[i].pending) = Len(inv[i].enqueued)
            /\ Outcome(inv[i]) =>
                  /\ inv[i].result.failureCount > 0
                  /\ inv[i].result.failureCount = Cardinality(Failures(inv[i]))
                  /\ Len(inv[i].hist) = Len(inv[i].enqueued)
                  /\ Mutation(inv[i]) /\ ~inv[i].disturbed =>
                        Range(inv[i].enqueued) = inv[i].matched

\* A first page with a failure, a later page written all the same, an outcome returned.
C4_Witness ==
    \E i \in DOMAIN inv :
        /\ Outcome(inv[i]) /\ inv[i].paginated /\ inv[i].nSessions >= 2
        /\ ~inv[i].hist[1].ok
        /\ inv[i].hist[Len(inv[i].hist)].ok
        /\ Len(inv[i].hist) = NDocs

\* The id a failure notification leaves in failedDocIds.
RecordedId(h) == IF h.hasRef THEN h.id ELSE Unknown
FailedWrites(r) == SelectSeq(r.hist, LAMBDA h : ~h.ok)
SucceededWrites(r) == SelectSeq(r.hist, LAMBDA h : h.ok)

\* C5 as stated: the id of a document whose write failed is always in the
\* returned failedDocIds and never in createdIds, and the write is not counted
\* in successCount.
C5_FailedIdListedNeverCreated ==
    \A i \in DOMAIN inv :
        Outcome(inv[i]) =>
            /\ inv[i].result.successCount = Cardinality(Successes(inv[i]))
            /\ \A k \in Failures(inv[i]) :
                  /\ inv[i].hist[k].id \in Range(inv[i].result.failedDocIds)
                  /\ inv[i].hist[k].id \notin Range(inv[i].result.createdIds)

\* C5, amended: a failed write is never counted in successCount and adds no id
\* to createdIds; it adds exactly one entry to failedDocIds, the document's id,
\* or "unknown" when the failure notification carries no document reference.
C5_FailedWriteRecordedOnce ==
    \A i \in DOMAIN inv :
        LET r == inv[i]
            failed == FailedWrites(r)
            done == SucceededWrites(r)
        IN  /\ r.successCount = Len(done)
            /\ r.failureCount = Len(failed)
            /\ r.failedDocIds = [k \in 1..Len(failed) |-> RecordedId(failed[k])]
            /\ r.createdIds = IF r.op = "create"
                              THEN [k \in 1..Len(done) |-> done[k].id] ELSE <<>>
            /\ Outcome(r) =>
                  /\ r.result.successCount = Len(done)
                  /\ r.result.failureCount = Len(failed)
                  /\ r.result.failedDocIds = r.failedDocIds
                  /\ r.result.createdIds = r.createdIds

\* create of two inputs with the same id: the first write succeeds, the second fails.
C5_Witness ==
    \E i \in DOMAIN inv :
        /\ Outcome(inv[i]) /\ inv[i].op = "create"
        /\ inv[i].result.createdIds = <<1>>
        /\ inv[i].result.failedDocIds = <<1>>
        /\ inv[i].result.successCount = 1

\* C6: for the same match set, mutation and per-document outcomes, a paginated
\* update or upsert (any page size, dividing the match count or not) returns the
\* successCount, failureCount, totalCount and set of failedDocIds the unbounded
\* run returns, and processes every matched document: in both modes the outcome
\* is the one fixed by the match set and the per-document outcomes alone.
C6_PaginatedAgreesWithUnbounded ==
    \A i \in DOMAIN inv :
        LET r == inv[i]
        IN  Outcome(r) /\ Mutation(r) /\ ~r.disturbed =>
                /\ Len(r.hist) = Cardinality(r.matched)
                /\ {r.hist[k].id : k \in 1..Len(r.hist)} = r.matched
                /\ r.result.totalCount = Cardinality(r.matched)
                /\ r.result.successCount = Cardinality(Successes(r))
                /\ r.result.failureCount = Cardinality(Failures(r))
                /\ Range(r.result.failedDocIds)
                      = {RecordedId(r.hist[k]) : k \in Failures(r)}

\* Three matching documents in pages of two, one write failed.
C6_Witness ==
    \E i \in DOMAIN inv :
        /\ Outcome(inv[i]) /\ Mutation(inv[i]) /\ ~inv[i].disturbed
        /\ inv[i].paginated /\ inv[i].batchSize.n = 2
        /\ Cardinality(inv[i].matched) = 3
        /\ inv[i].pages = <<2, 1>>
        /\ Cardinality(Failures(inv[i])) = 1

\* updateData that is null, not an object, an array, or has no keys.
BadPayload(p) == p.kind \in {"null", "string", "array"} \/ Keys(p.data) = {}

\* The configuration error of a call: no collection selected, a bad payload, an
\* empty or non-array documents list, a create item without data.
Misconfigured(r) ==
    CASE r.op \in {"update", "upsert", "preview"} ->
            collectionPath = NoCollection \/ BadPayload(r.updateData)
      [] r.op = "create" ->
            \/ collectionPath = NoCollection
            \/ r.documents = <<>>
            \/ \E k \in 1..Len(r.documents) : BadPayload(r.documents[k].data)
      [] OTHER -> FALSE

\* C7: a configuration error is raised before any store access: no count or
\* fetch query is issued, no bulkWriter opened, no mutation enqueued, no log written.
C7_ConfigErrorBeforeStoreAccess ==
    \A i \in DOMAIN inv :
        LET r == inv[i]
        IN  /\ Misconfigured(r) => r.pc = "thrown" /\ r.error = "config"
            /\ r.error = "config" =>
                  /\ Misconfigured(r)
                  /\ r.nCount = 0 /\ r.nFetch = 0
                  /\ r.nSessions = 0 /\ r.enqueued = <<>> /\ r.hist = <<>>
                  /\ r.nFinalize = 0 /\ r.logEntries = <<>>
                  /\ r.result = NoResult

\* create with a second item whose data is empty, on a selected collection.
C7_Witness ==
    \E i \in DOMAIN inv :
        /\ inv[i].error = "config" /\ inv[i].op = "create"
        /\ collectionPath # NoCollection
        /\ Len(inv[i].documents) = 2
        /\ ~BadPayload(inv[i].documents[1].data)

\* C8: update or upsert called with a batchSize of zero or a negative number is
\* rejected with an error before any query executes.
C8_NonPositiveBatchSizeRejected ==
    [][\A i \in DOMAIN inv, p \in Payloads, b \in BatchSizes, g \in BOOLEAN, l \in BOOLEAN :
          (update(i, p, b, g, l) \/ upsert(i, p, b, g, l)) /\ b.set /\ b.n <= 0
              => inv'[i].pc = "thrown" /\ inv'[i].nFetch = 0]_vars

\* C9 as stated: if the store rejects the count query or any fetch query,
\* page 2 or later included, the invocation throws with no mutation dispatched.
C9_QueryErrorMeansNoWrite ==
    \A i \in DOMAIN inv :
        inv[i].error = "query" =>
            inv[i].pc = "thrown" /\ inv[i].enqueued = <<>> /\ inv[i].nSessions = 0

\* C9, amended: a rejected count query or first fetch throws with no mutation
\* dispatched; a rejected fetch of page 2 or later throws after the mutations of
\* every earlier page were dispatched and resolved, and dispatches none further.
C9_QueryErrorAfterWholePages ==
    \A i \in DOMAIN inv :
        LET r == inv[i]
        IN  r.error = "query" =>
                /\ r.pc = "thrown" /\ r.result = NoResult
                /\ r.nFetch <= 1 => r.enqueued = <<>> /\ r.nSessions = 0
                /\ r.nFetch >= 1 => r.nSessions = r.nFetch - 1
                /\ r.pending = {} /\ r.openWriters = 0
                /\ Len(r.hist) = Len(r.enqueued)
                /\ r.nSessions = Len(r.pages)

\* The fetch of page 2 rejected after a page of two was written.
C9_Witness ==
    \E i \in DOMAIN inv :
        /\ inv[i].error = "query" /\ inv[i].nFetch = 2
        /\ inv[i].pages = <<2>> /\ Len(inv[i].hist) = 2

Percentages(r) == [k \in 1..Len(r.progress) |-> r.progress[k].percentage]

\* C10: with an onProgress callback the percentages reported never decrease,
\* and if total > 0 the last one reported by the invocation is 100.
C10_ProgressEndsAtHundred ==
    \A i \in DOMAIN inv :
        LET r == inv[i]
            pct == Percentages(r)
        IN  r.onProgress =>
                /\ \A k \in 1..(Len(pct) - 1) : pct[k] <= pct[k + 1]
                /\ Outcome(r) /\ r.totalCount > 0 =>
                      Len(pct) > 0 /\ pct[Len(pct)] = 100

\* C11: the last progress callback of an invocation that returns has
\* current = total, and an invocation whose total is 0 makes no progress
\* callback; in unbounded mode, in paginated mode and for create.
C11_LastProgressReachesTotal ==
    \A i \in DOMAIN inv :
        LET r == inv[i]
            n == Len(r.progress)
        IN  r.onProgress /\ Outcome(r) =>
                /\ n > 0 => r.progress[n].current = r.progress[n].total
                /\ r.totalCount = 0 => n = 0

\* C12: every ProgressInfo given to onProgress has 0 <= percentage <= 100 and
\* 1 <= current <= total, and all callbacks of one invocation carry the same total.
C12_ProgressInfoInRange ==
    \A i \in DOMAIN inv :
        \A k \in 1..Len(inv[i].progress) :
            LET p == inv[i].progress[k]
            IN  /\ 0 <= p.percentage /\ p.percentage <= 100
                /\ 1 <= p.current /\ p.current <= p.total
                /\ p.total = inv[i].progress[1].total

\* ceil(m / n)
Ceil(m, n) == (m + n - 1) \div n

\* Pages of n, ..., n and a last page of what is left of m.
PageSizes(m, n) ==
    [k \in 1..Ceil(m, n) |-> IF k < Ceil(m, n) THEN n ELSE m - n * (Ceil(m, n) - 1)]

\* The pages that held documents, in the order they were fetched.
WrittenPages(r) == SelectSeq(r.pages, LAMBDA n : n > 0)

IsPrefix(s, t) == Len(s) <= Len(t) /\ \A k \in 1..Len(s) : s[k] = t[k]

\* C13: in paginated mode with page size N over M > 0 matching documents that
\* no one else changes, totalCount is M, known from the count query before any
\* mutation is enqueued; one bulkWriter is opened per page, never two at once;
\* the pages hold N, ..., N and then the rest, and an invocation that has gone
\* through all its pages has opened exactly ceil(M / N) bulkWriters.
C13_OneSessionPerPage ==
    \A i \in DOMAIN inv :
        LET r == inv[i]
            M == Cardinality(r.matched)
            N == r.batchSize.n
        IN  Mutation(r) /\ r.paginated /\ ~r.disturbed /\ M > 0 =>
                /\ r.openWriters <= 1
                /\ r.enqueued # <<>> => r.nCount = 1 /\ r.totalCount = M
                /\ r.nSessions = Len(WrittenPages(r))
                /\ IsPrefix(WrittenPages(r), PageSizes(M, N))
                /\ r.pc = "returned" \/ r.error = "log" =>
                      /\ r.nSessions = Ceil(M, N)
                      /\ WrittenPages(r) = PageSizes(M, N)
                      /\ Len(r.enqueued) = M

C13_Witness ==
    \E i \in DOMAIN inv :
        /\ Outcome(inv[i]) /\ Mutation(inv[i]) /\ inv[i].paginated
        /\ ~inv[i].disturbed
        /\ Cardinality(inv[i].matched) = 3
        /\ inv[i].batchSize.n = 2
        /\ WrittenPages(inv[i]) = <<2, 1>>
        /\ inv[i].nSessions = 2
        /\ inv[i].result.totalCount = 3

\* The place of the first occurrence of id in the sequence ids.
IndexOf(ids, id) == CHOOSE k \in 1..Len(ids) : ids[k] = id /\ \A j \in 1..(k - 1) : ids[j] # id

\* C14: in the createdIds returned by create, the explicit ids stand in the
\* order of the input array, whatever the order of the completion notifications.
C14_ExplicitIdsInInputOrder ==
    \A i \in DOMAIN inv :
        LET r == inv[i]
            created == r.result.createdIds
        IN  Outcome(r) /\ r.op = "create" =>
                \A p, q \in 1..Len(r.documents) :
                    /\ p < q
                    /\ r.documents[p].hasId /\ r.documents[q].hasId
                    /\ r.documents[p].id # r.documents[q].id
                    /\ r.documents[p].id \in Range(created)
                    /\ r.documents[q].id \in Range(created)
                    => IndexOf(created, r.documents[p].id) < IndexOf(created, r.documents[q].id)

NoDuplicates(ids) == \A a, b \in 1..Len(ids) : ids[a] = ids[b] => a = b

\* How many times id stands in the sequence ids.
Count(ids, id) == Cardinality({k \in 1..Len(ids) : ids[k] = id})

\* The ids of the writes of the invocation that succeeded, in completion order.
CreatedByWrites(r) ==
    LET ok == SelectSeq(r.hist, LAMBDA h : h.ok)
    IN  [k \in 1..Len(ok) |-> ok[k].id]

ExplicitIdsDistinct(r) ==
    \A p, q \in 1..Len(r.documents) :
        r.documents[p].hasId /\ r.documents[q].hasId /\ r.documents[p].id = r.documents[q].id
            => p = q

\* Everything C15 says of createdIds but the absence of duplicates.
OneIdPerSuccess(r) ==
    LET created == r.result.createdIds
    IN  /\ r.result.hasCreatedIds
        /\ Len(created) = r.result.successCount
        /\ \A id \in Ids \cup {Unknown} :
              Count(created, id) = Count(CreatedByWrites(r), id)
        /\ \A h \in Range(r.hist) :
              h.ok /\ r.documents[h.key].hasId => r.documents[h.key].id \in Range(created)
        /\ \A h \in Range(r.hist) :
              h.ok /\ ~r.documents[h.key].hasId => Count(created, AutoId(h.key)) = 1
        /\ Failures(r) = {} => Len(created) = Len(r.documents)

\* C15 as stated: createdIds of create holds exactly one id per successful write
\* and nothing else, and it never holds an id twice.
C15_CreatedIdsNoDuplicates ==
    \A i \in DOMAIN inv :
        Outcome(inv[i]) /\ inv[i].op = "create" =>
            OneIdPerSuccess(inv[i]) /\ NoDuplicates(inv[i].result.createdIds)

\* C15: createdIds of create holds exactly one id per successful write and
\* nothing else: as long as successCount, every explicit id whose write
\* succeeded, one generated id per successful input without id, as long as the
\* input when nothing failed; it holds no id twice when the explicit ids of
\* the input are pairwise distinct.
C15_CreatedIdsOnePerSuccess ==
    \A i \in DOMAIN inv :
        Outcome(inv[i]) /\ inv[i].op = "create" =>
            /\ OneIdPerSuccess(inv[i])
            /\ ExplicitIdsDistinct(inv[i]) => NoDuplicates(inv[i].result.createdIds)

\* An explicit id and an input without id, both created: two ids returned.
C15_Witness ==
    \E i \in DOMAIN inv :
        /\ Outcome(inv[i]) /\ inv[i].op = "create"
        /\ Len(inv[i].documents) = 2
        /\ inv[i].documents[1].hasId /\ ~inv[i].documents[2].hasId
        /\ inv[i].result.successCount = 2
        /\ Len(inv[i].result.createdIds) = 2
        /\ Range(inv[i].result.createdIds) = {inv[i].documents[1].id, AutoId(2)}

\* C16: preview changes nothing in the store: it opens no bulkWriter, enqueues
\* no mutation and no write of its own ever completes; and in every sample it
\* returns, after is before with the patch laid over it: a key of the patch has
\* the patch's value, any other key has the value it has in before.
C16_PreviewMergesAndOnlyReads ==
    \A i \in DOMAIN inv :
        LET r == inv[i]
            patch == r.updateData.data
        IN  r.op = "preview" =>
                /\ r.nSessions = 0 /\ r.openWriters = 0
                /\ r.enqueued = <<>> /\ r.pending = {} /\ r.hist = <<>>
                /\ r.pc = "returned" =>
                      \A k \in 1..Len(r.result.samples) :
                          \A f \in Fields :
                              r.result.samples[k].after[f] =
                                  IF f \in Keys(patch) THEN patch[f]
                                  ELSE r.result.samples[k].before[f]

\* A sample whose document has the patch's key with another value, and a key
\* the patch does not have.
C16_Witness ==
    \E i \in DOMAIN inv :
        /\ inv[i].op = "preview" /\ inv[i].pc = "returned"
        /\ inv[i].updateData = ArchivePatch
        /\ \E k \in 1..Len(inv[i].result.samples) :
              LET smp == inv[i].result.samples[k]
              IN  /\ smp.before["status"] = "inactive" /\ smp.before["tag"] = "x"
                  /\ smp.after["status"] = "archived" /\ smp.after["tag"] = "x"

\* The ids of the samples, in the order returned.
SampleIds(r) == [k \in 1..Len(r.result.samples) |-> r.result.samples[k].id]

\* C17: for M matching documents and a patch P, preview returns affectedCount = M,
\* affectedFields = the keys of P, and min(M, 10) samples: the first min(M, 10)
\* documents of the fetched result, in fetch order.  (Nothing touches the store
\* once preview has returned, so the store is the one the fetch was answered from.)
C17_PreviewCountsFieldsSamples ==
    \A i \in DOMAIN inv :
        LET r == inv[i]
            matching == MatchSet(store, conditions)
            M == Cardinality(matching)
        IN  r.op = "preview" /\ r.pc = "returned" =>
                /\ r.result.affectedCount = M
                /\ r.result.affectedFields = Keys(r.updateData.data)
                /\ Len(r.result.samples) = (IF M < SampleLimit THEN M ELSE SampleLimit)
                /\ \A k \in 1..Len(r.result.samples) :
                      /\ SampleIds(r)[k] \in matching
                      /\ Cardinality({d \in matching : d < SampleIds(r)[k]}) = k - 1

\* More matching documents than samples.
C17_Witness ==
    \E i \in DOMAIN inv :
        /\ inv[i].op = "preview" /\ inv[i].pc = "returned"
        /\ inv[i].result.affectedCount > SampleLimit
        /\ Len(inv[i].result.samples) = SampleLimit
        /\ inv[i].result.affectedFields = {"status"}

\* C18: in every outcome returned by update, upsert or create, failedDocIds is
\* there exactly when failureCount > 0, and then it is failureCount long.
C18_FailedDocIdsIffFailures ==
    \A i \in DOMAIN inv :
        LET res == inv[i].result
        IN  Outcome(inv[i]) =>
                /\ res.hasFailedDocIds <=> res.failureCount > 0
                /\ res.hasFailedDocIds => Len(res.failedDocIds) = res.failureCount
                /\ res.failureCount = Cardinality(Failures(inv[i]))

C18_Witness ==
    \E i \in DOMAIN inv :
        /\ Outcome(inv[i])
        /\ inv[i].result.successCount > 0
        /\ inv[i].result.failureCount = 2
        /\ inv[i].result.hasFailedDocIds
        /\ Len(inv[i].result.failedDocIds) = 2

\* C19: an outcome returned by update, upsert or create carries logFilePath
\* exactly when the call was made with log.enabled; the return that follows a
\* query matching nothing also finalizes its log, one of Total 0.
C19_LogFilePathIffLogEnabled ==
    \A i \in DOMAIN inv :
        LET r == inv[i]
        IN  Outcome(r) =>
                /\ r.result.hasLogFilePath <=> r.logEnabled
                /\ r.nFinalize = (IF r.logEnabled THEN 1 ELSE 0)
                /\ SawNoMatch(r) /\ r.logEnabled =>
                      LogSummary(r.logEntries).totalCount = 0

\* The zero-match return with a log.
C19_Witness ==
    \E i \in DOMAIN inv :
        /\ Outcome(inv[i]) /\ SawNoMatch(inv[i])
        /\ inv[i].logEnabled
        /\ inv[i].result.totalCount = 0
        /\ inv[i].result.hasLogFilePath
        /\ inv[i].nFinalize = 1

\* C20: within one paginated invocation the count query and every page query
\* are made from the same collection and the same sequence of conditions, also
\* when collection() or where() is called on the BatchUpdater while the
\* invocation is suspended.
C20_PlanFixedWithinInvocation ==
    \A i \in DOMAIN inv :
        inv[i].paginated =>
            \A a, b \in 1..Len(inv[i].plans) : inv[i].plans[a] = inv[i].plans[b]

LinesOf(report, kind) == SelectSeq(report, LAMBDA ln : ln.kind = kind)

EntriesOf(entries, status) == {k \in 1..Len(entries) : entries[k].status = status}

\* C22: the log of the collector has a summary with totalCount = the number of
\* entries and successCount, failureCount = the numbers of entries of each
\* status, so Total = Success + Failure; the report written shows the three
\* counts and has one line per entry, in the order the entries were recorded.
C22_LogSummaryAndReport ==
    \A i \in DOMAIN inv :
        LET r == inv[i]
            entries == r.logEntries
            report == r.logFile
            listed == LinesOf(report, "entry")
        IN  Outcome(r) /\ r.logEnabled =>
                /\ LinesOf(report, "Total") = <<Line("Total", "", Len(entries), NoDoc)>>
                /\ LinesOf(report, "Success") =
                      <<Line("Success", "", Cardinality(EntriesOf(entries, "success")), NoDoc)>>
                /\ LinesOf(report, "Failure") =
                      <<Line("Failure", "", Cardinality(EntriesOf(entries, "failure")), NoDoc)>>
                /\ LinesOf(report, "Total")[1].n =
                      LinesOf(report, "Success")[1].n + LinesOf(report, "Failure")[1].n
                /\ Len(listed) = Len(entries)
                /\ \A k \in 1..Len(entries) :
                      /\ listed[k].text = entries[k].status
                      /\ listed[k].documentId = entries[k].documentId

\* A log of two entries, a failure recorded before a success.
C22_Witness ==
    \E i \in DOMAIN inv :
        /\ Outcome(inv[i]) /\ inv[i].logEnabled
        /\ Len(inv[i].logEntries) = 2
        /\ inv[i].logEntries[1].status = "failure"
        /\ inv[i].logEntries[2].status = "success"
        /\ Len(LinesOf(inv[i].logFile, "entry")) = 2
        /\ LinesOf(inv[i].logFile, "Total")[1].n = 2

\* 100 * current / total rounded to the nearest integer, a half rounded up.
RoundedPercent(current, total) == (200 * current + total) \div (2 * total)

\* C23: calculateProgress(current, total) gives back current and total as they
\* are, with percentage = round(current / total * 100), a half rounded up, when
\* total > 0, and percentage = 0 when total = 0.
C23_PercentageIsRounded ==
    \A i \in DOMAIN inv :
        \A k \in 1..Len(inv[i].progress) :
            LET p == inv[i].progress[k]
            IN  /\ p.current = inv[i].processedCount
                /\ p.total = inv[i].totalCount
                /\ p.percentage = IF p.total = 0 THEN 0
                                  ELSE RoundedPercent(p.current, p.total)

\* What one step does to an invocation, from its state r before to q after:
\* a notification is taken in whole, and nothing else moves the counters.
NotifiedInOneStep(r, q) ==
    IF Len(q.hist) = Len(r.hist) + 1
    THEN LET h == q.hist[Len(q.hist)]
             docId == IF h.ok THEN h.id ELSE IF h.hasRef THEN h.id ELSE Unknown
         IN  /\ q.processedCount = r.processedCount + 1
             /\ q.successCount = r.successCount + (IF h.ok THEN 1 ELSE 0)
             /\ q.failureCount = r.failureCount + (IF h.ok THEN 0 ELSE 1)
             /\ q.failedDocIds = (IF h.ok THEN r.failedDocIds
                                  ELSE Append(r.failedDocIds, docId))
             /\ IF r.logEnabled
                THEN /\ Len(q.logEntries) = Len(r.logEntries) + 1
                     /\ SubSeq(q.logEntries, 1, Len(r.logEntries)) = r.logEntries
                     /\ q.logEntries[Len(q.logEntries)].documentId = docId
                     /\ q.logEntries[Len(q.logEntries)].status =
                           (IF h.ok THEN "success" ELSE "failure")
                ELSE q.logEntries = r.logEntries
    ELSE /\ q.hist = r.hist
         /\ q.processedCount = r.processedCount
         /\ q.successCount = r.successCount
         /\ q.failureCount = r.failureCount
         /\ q.failedDocIds = r.failedDocIds
         /\ q.logEntries = r.logEntries

\* C24: each completion notification is taken in one step: processedCount grows
\* by 1 and exactly one of successCount, failureCount by 1; a failure appends the
\* document's id, or "unknown" when the channel names no document, to
\* failedDocIds; with a log, one entry of the matching status is appended; so
\* processedCount = successCount + failureCount in every state.
C24_NotificationTakenInOneStep ==
    /\ [](\A i \in DOMAIN inv :
             inv[i].processedCount = inv[i].successCount + inv[i].failureCount)
    /\ [][\A i \in DOMAIN inv : NotifiedInOneStep(inv[i], inv'[i])]_vars

\* A failure the channel named no document for, taken with a log.
C24_Witness ==
    \E i \in DOMAIN inv :
        /\ inv[i].logEnabled
        /\ inv[i].processedCount = 2
        /\ inv[i].successCount = 1 /\ inv[i].failureCount = 1
        /\ inv[i].failedDocIds = <<Unknown>>
        /\ Len(inv[i].logEntries) = 2

\* C25: with an onProgress callback, the callback is called once for every
\* completion notification, success or failure, none skipped and none put
\* together, and the current of the calls is 1, 2, 3, ..., from page to page as
\* within a page.
C25_ProgressOncePerNotification ==
    \A i \in DOMAIN inv :
        LET r == inv[i]
        IN  IF r.onProgress
            THEN /\ Len(r.progress) = Len(r.hist)
                 /\ \A k \in 1..Len(r.progress) : r.progress[k].current = k
            ELSE r.progress = <<>>

\* Progress over two pages, a failure among the notifications.
C25_Witness ==
    \E i \in DOMAIN inv :
        /\ inv[i].onProgress /\ inv[i].paginated
        /\ Len(WrittenPages(inv[i])) = 2
        /\ Failures(inv[i]) # {}
        /\ Len(inv[i].progress) = 3
        /\ inv[i].progress[3].current = 3

\* The cursor moves only in a step that finds the session drained, and moves to
\* the last document of the page that session wrote.
CursorMovesAfterDrain(r, q) ==
    q.lastDoc # r.lastDoc =>
        /\ r.pc = "drain" /\ r.pending = {}
        /\ q.openWriters = 0
        /\ q.lastDoc = r.page[Len(r.page)]

\* C26: in paginated mode the cursor is changed only after the session of the
\* current page has drained, and then set to the last document of that page;
\* every page before the last is full, and after the drain of the first page
\* that is not full, or at the first empty page, the loop ends and no other
\* page is fetched.
C26_CursorAfterDrainLoopEndsOnShortPage ==
    /\ [](\A i \in DOMAIN inv :
             LET r == inv[i]
                 N == r.batchSize.n
                 n == Len(r.pages)
             IN  Mutation(r) /\ r.paginated =>
                     /\ r.pc = "drain" => r.lastDoc = r.query.startAfter
                     /\ r.pc = "fetch" /\ n > 0 =>
                           /\ r.pending = {} /\ r.openWriters = 0
                           /\ r.lastDoc = r.page[Len(r.page)]
                           /\ r.query.startAfter = r.lastDoc
                     /\ \A k \in 1..(n - 1) : r.pages[k] = N
                     /\ r.nFetch \in {n, n + 1}
                     /\ r.nFetch = n + 1 => r.pc = "fetch" \/ r.error = "query"
                     /\ n > 0 /\ r.pages[n] < N => r.pc # "fetch" /\ r.error # "query"
                     /\ Outcome(r) /\ n > 0 => r.pages[n] < N)
    /\ [][\A i \in DOMAIN inv :
             Mutation(inv[i]) /\ inv[i].paginated => CursorMovesAfterDrain(inv[i], inv'[i])]_vars

\* A full page and then a page that is not: the cursor stands on the last document.
C26_Witness ==
    \E i \in DOMAIN inv :
        /\ Outcome(inv[i]) /\ Mutation(inv[i]) /\ inv[i].paginated
        /\ inv[i].batchSize.n = 2
        /\ inv[i].pages = <<2, 1>>
        /\ inv[i].lastDoc = 3
        /\ inv[i].nFetch = 2

\* C27: in paginated mode every document that matched when the invocation began
\* is enqueued exactly once, none skipped and none twice, also when the mutation
\* takes the documents it writes out of the match set (filter status ==
\* inactive, patch status: archived).  No document is ever enqueued twice; none
\* is skipped when no one else changes the collection meanwhile.
C27_EveryMatchEnqueuedOnce ==
    \A i \in DOMAIN inv :
        LET r == inv[i]
        IN  Mutation(r) /\ r.paginated =>
                /\ NoDuplicates(r.enqueued)
                /\ ~r.disturbed =>
                      /\ Range(r.enqueued) \subseteq r.matched
                      /\ r.pc = "returned" \/ r.error = "log" =>
                            Range(r.enqueued) = r.matched

\* The filter is status == inactive and the update archived every document, page
\* by page: nothing matches any more, and each document was written once.
C27_Witness ==
    \E i \in DOMAIN inv :
        /\ Outcome(inv[i]) /\ inv[i].op = "update" /\ inv[i].paginated
        /\ inv[i].batchSize.n = 1
        /\ conditions = <<StatusIsInactive>>
        /\ inv[i].updateData = ArchivePatch
        /\ inv[i].matched = Docs
        /\ inv[i].enqueued = SortedSeq(Docs)
        /\ inv[i].result.successCount = NDocs
        /\ MatchSet(store, conditions) = {}

\* The page fetches of a run over m matching documents with pages of n.
FetchesFor(m, n) == IF m % n = 0 THEN (m \div n) + 1 ELSE Ceil(m, n)

\* C28: in paginated mode with page size N over M > 0 matching documents that
\* no one else changes, the count query is issued exactly once, and a run that
\* goes through all its pages issues ceil(M / N) page fetches when N does not
\* divide M and M / N + 1 when it does: the last of these answers an empty page
\* and opens no bulkWriter.
C28_FetchesPerRun ==
    \A i \in DOMAIN inv :
        LET r == inv[i]
            M == Cardinality(r.matched)
            N == r.batchSize.n
        IN  Mutation(r) /\ r.paginated /\ ~r.disturbed /\ M > 0 =>
                /\ r.nCount = 1
                /\ r.nFetch <= FetchesFor(M, N)
                /\ r.pc = "returned" \/ r.error = "log" =>
                      /\ r.nFetch = FetchesFor(M, N)
                      /\ Len(r.pages) = r.nFetch
                      /\ M % N = 0 =>
                            /\ r.pages[r.nFetch] = 0
                            /\ r.nSessions = r.nFetch - 1
                      /\ M % N # 0 =>
                            /\ r.pages[r.nFetch] = M % N
                            /\ r.nSessions = r.nFetch

\* Two documents match and the page size is two: a full page, then an empty one.
C28_Witness ==
    \E i \in DOMAIN inv :
        /\ Outcome(inv[i]) /\ Mutation(inv[i]) /\ inv[i].paginated
        /\ ~inv[i].disturbed
        /\ Cardinality(inv[i].matched) = 2
        /\ inv[i].batchSize.n = 2
        /\ inv[i].nCount = 1
        /\ inv[i].nFetch = 2
        /\ inv[i].pages = <<2, 0>>
        /\ inv[i].nSessions = 1

\* The call got past its validation.
Started(r) == r.pc # "idle" /\ r.error # "config"

\* C29: without a page size, update and upsert issue one fetch query and no
\* count query; when the fetch answers documents they open one bulkWriter,
\* enqueue one write per document fetched, take totalCount from the size of the
\* answer, and return only once that bulkWriter has drained.  create opens one
\* bulkWriter and enqueues one create per input document.
C29_UnboundedOneFetchOneSession ==
    \A i \in DOMAIN inv :
        LET r == inv[i]
        IN  /\ Mutation(r) /\ ~r.paginated /\ Started(r) =>
                  /\ r.nCount = 0 /\ r.nFetch = 1
                  /\ r.pc = "fetch" \/ r.error = "query" =>
                        r.nSessions = 0 /\ r.enqueued = <<>>
                  /\ r.pages # <<>> /\ r.pages[1] > 0 =>
                        /\ r.pages = <<Len(r.page)>>
                        /\ r.nSessions = 1
                        /\ r.enqueued = r.page /\ NoDuplicates(r.page)
                        /\ r.totalCount = Len(r.page)
                        /\ r.pc = "drain" => r.openWriters = 1
                        /\ r.pc # "drain" =>
                              /\ r.pending = {} /\ r.openWriters = 0
                              /\ Len(r.hist) = Len(r.page)
                        /\ Outcome(r) => r.result.totalCount = Len(r.page)
            /\ r.op = "create" /\ Started(r) =>
                  /\ r.nCount = 0 /\ r.nFetch = 0 /\ r.nSessions = 1
                  /\ Len(r.enqueued) = Len(r.documents)
                  /\ r.totalCount = Len(r.documents)
                  /\ r.pc = "drain" => r.openWriters = 1
                  /\ r.pc # "drain" =>
                        /\ r.pending = {} /\ r.openWriters = 0
                        /\ Len(r.hist) = Len(r.documents)

\* An update without a page size has returned after its one session wrote the
\* three documents of its one fetch.
C29_Witness ==
    \E i \in DOMAIN inv :
        /\ Outcome(inv[i]) /\ inv[i].op = "update" /\ ~inv[i].paginated
        /\ inv[i].nFetch = 1 /\ inv[i].nCount = 0 /\ inv[i].nSessions = 1
        /\ Len(inv[i].page) = NDocs
        /\ inv[i].enqueued = inv[i].page
        /\ inv[i].result.totalCount = NDocs

\* C30: in paginated mode with page size N the writes of an invocation that are
\* enqueued and not yet notified are never more than N: they are writes of the
\* one page being written, whose bulkWriter is the only one open.
C30_PendingAtMostPageSize ==
    \A i \in DOMAIN inv :
        LET r == inv[i]
        IN  Mutation(r) /\ r.paginated /\ Started(r) =>
                /\ Cardinality(r.pending) <= r.batchSize.n
                /\ r.pending \subseteq Range(r.page)
                /\ Len(r.enqueued) - Len(r.hist) = Cardinality(r.pending)
                /\ r.pc # "drain" => r.pending = {}

\* The second page of one document is being written: its write is pending, the
\* write of the first page has been notified.
C30_Witness ==
    \E i \in DOMAIN inv :
        /\ Mutation(inv[i]) /\ inv[i].paginated /\ inv[i].pc = "drain"
        /\ inv[i].batchSize.n = 1
        /\ inv[i].nSessions = 2
        /\ Len(inv[i].enqueued) = 2
        /\ Len(inv[i].hist) = 1
        /\ Cardinality(inv[i].pending) = 1

\* A step in which the write of invocation r (q after the step) to a document
\* that is gone from the store is notified: the document was in the page fetched
\* and another actor deleted it before the write was applied.
WriteToDeletedNotified(r, q) ==
    /\ Mutation(r) /\ r.pc = "drain"
    /\ Len(q.hist) = Len(r.hist) + 1
    /\ ~store[q.hist[Len(q.hist)].id].exists

\* C31: for update and for upsert, the write to a document that another actor
\* deleted after the page fetch ends as a failure of the invocation: failureCount
\* grows by one, the id is appended to failedDocIds, successCount stays.
C31_DeletedDocumentIsFailure ==
    [][\A i \in DOMAIN inv :
          WriteToDeletedNotified(inv[i], inv'[i]) =>
              /\ inv'[i].failureCount = inv[i].failureCount + 1
              /\ inv'[i].successCount = inv[i].successCount
              /\ inv'[i].failedDocIds =
                    Append(inv[i].failedDocIds, inv'[i].hist[Len(inv'[i].hist)].id)]_vars

\* A step of invocation r (q after the step) that issues a page query after the
\* first one: the cursor of the new query lies beyond the cursor of the last.
CursorAdvances(r, q) ==
    Mutation(r) /\ r.paginated /\ r.nFetch > 0 /\ q.nFetch = r.nFetch + 1
        => q.query.startAfter > r.query.startAfter

\* C32, as stated: when the match set does not grow and the store and the write
\* channel answer every query and notify every write, every update, upsert and
\* create that is under way eventually returns an outcome.
C32_EventuallyReturnsOutcome ==
    \A i \in Callers : InFlight(inv[i]) ~> Outcome(inv[i])

\* C32, amended: under the same conditions every update, upsert and create that
\* is under way eventually returns an outcome or, with a log, throws the error
\* of writing the log file; and the page loop never fetches a page twice: every
\* page query after the first starts after a later cursor than the one before,
\* and no document is enqueued twice.
C32_EventuallyReturnsOrLogFails ==
    /\ \A i \in Callers :
          InFlight(inv[i]) ~> (Outcome(inv[i]) \/ inv[i].error = "log")
    /\ [][\A i \in DOMAIN inv : CursorAdvances(inv[i], inv'[i])]_vars
    /\ [](\A i \in DOMAIN inv :
             Mutation(inv[i]) /\ inv[i].paginated => NoDuplicates(inv[i].enqueued))

\* A paginated update went through three pages, the cursor moving on each time,
\* and returned its outcome.
C32_Witness ==
    \E i \in DOMAIN inv :
        /\ Outcome(inv[i]) /\ inv[i].op = "update" /\ inv[i].paginated
        /\ inv[i].batchSize.n = 1
        /\ inv[i].nFetch = NDocs + 1
        /\ inv[i].enqueued = SortedSeq(Docs)
        /\ inv[i].query.startAfter = NDocs

\* The document a notification is recorded under: its id, or "unknown" for a
\* failure the channel names no document for.
LoggedId(h) == IF h.ok \/ h.hasRef THEN h.id ELSE Unknown

\* C33: with a log, the entries are the completion notifications of the
\* invocation in the order they arrived, one entry for each, whatever the order
\* the writes were enqueued in; and the summary of the log written at the end
\* has the successCount and the failureCount of the outcome returned.
C33_LogEntriesInCompletionOrder ==
    \A i \in DOMAIN inv :
        LET r == inv[i]
        IN  IF r.logEnabled
            THEN /\ Len(r.logEntries) = Len(r.hist)
                 /\ \A k \in 1..Len(r.hist) :
                       /\ r.logEntries[k].documentId = LoggedId(r.hist[k])
                       /\ r.logEntries[k].status =
                             (IF r.hist[k].ok THEN "success" ELSE "failure")
                 /\ Outcome(r) =>
                       /\ getLog(r).summary.successCount = r.result.successCount
                       /\ getLog(r).summary.failureCount = r.result.failureCount
                       /\ LinesOf(r.logFile, "Success")[1].n = r.result.successCount
                       /\ LinesOf(r.logFile, "Failure")[1].n = r.result.failureCount
            ELSE r.logEntries = <<>>

\* Documents 1 and 2 were enqueued in this order and notified in the other: the
\* log has the failure of 2 before the success of 1.
C33_Witness ==
    \E i \in DOMAIN inv :
        /\ Outcome(inv[i]) /\ inv[i].logEnabled /\ Mutation(inv[i])
        /\ inv[i].enqueued = <<1, 2>>
        /\ Len(inv[i].logEntries) = 2
        /\ inv[i].logEntries[1].documentId = 2 /\ inv[i].logEntries[1].status = "failure"
        /\ inv[i].logEntries[2].documentId = 1 /\ inv[i].logEntries[2].status = "success"
        /\ inv[i].result.successCount = 1 /\ inv[i].result.failureCount = 1

\* The invocation is over: it returned or it threw.
Over(r) == r.pc \in {"returned", "thrown"}

\* C34, as stated: with a log, finalize is called exactly once per invocation.
C34_FinalizeOncePerInvocation ==
    \A i \in DOMAIN inv :
        inv[i].logEnabled =>
            /\ inv[i].nFinalize <= 1
            /\ Over(inv[i]) => inv[i].nFinalize = 1

\* C34, amended: with a log, finalize is called at most once, and exactly once
\* by an invocation that returns an outcome or throws the error of writing the
\* log; an invocation that throws because a query was rejected never calls it.
\* It is called only after the last bulkWriter has drained, every write enqueued
\* having its entry, and no entry is appended after it: once finalize has been
\* called the invocation changes no more.
C34_FinalizeAfterDrainThenNoEntry ==
    /\ [](\A i \in DOMAIN inv :
             LET r == inv[i]
             IN  IF r.logEnabled
                 THEN /\ r.nFinalize <= 1
                      /\ r.nFinalize = 1 <=> Outcome(r) \/ r.error = "log"
                      /\ r.error = "query" => r.nFinalize = 0
                      /\ r.nFinalize = 1 =>
                            /\ r.pending = {} /\ r.openWriters = 0
                            /\ Len(r.logEntries) = Len(r.enqueued)
                 ELSE r.nFinalize = 0)
    /\ [][\A i \in DOMAIN inv :
             inv[i].nFinalize > 0 => inv'[i] = inv[i]]_vars

\* A paginated update with a log wrote two pages and finalized once, two entries
\* in the log.
C34_Witness ==
    \E i \in DOMAIN inv :
        /\ Outcome(inv[i]) /\ inv[i].logEnabled /\ inv[i].paginated
        /\ inv[i].nSessions = 2
        /\ inv[i].nFinalize = 1
        /\ Len(inv[i].logEntries) = 2
        /\ inv[i].result.hasLogFilePath

\* C35: when the log cannot be written, finalize throws and the invocation ends
\* in that error and returns no outcome, no counts reach the caller; by then
\* every write of the invocation has been enqueued and notified, and those that
\* succeeded are in the store.  Without that error an invocation that is over
\* either returned its result or threw at validation or on a rejected query.
C35_LogFailureIsFatal ==
    \A i \in DOMAIN inv :
        LET r == inv[i]
        IN  /\ r.error = "log" =>
                  /\ r.pc = "thrown" /\ r.result = NoResult
                  /\ r.logEnabled /\ r.nFinalize = 1 /\ r.logFile = <<>>
                  /\ r.pending = {} /\ r.openWriters = 0
                  /\ Len(r.hist) = Len(r.enqueued)
                  /\ r.processedCount = Len(r.enqueued)
                  /\ r.op = "create" => Len(r.enqueued) = Len(r.documents)
                  /\ Mutation(r) /\ ~r.disturbed => Range(r.enqueued) = r.matched
            /\ r.pc = "thrown" => r.result = NoResult /\ r.error \in {"config", "query", "log"}
            /\ r.pc = "returned" => r.error = "none" /\ r.result # NoResult
            /\ r.logEnabled /\ r.nFinalize = 1 /\ r.logFile = <<>> => r.error = "log"

\* An update archived the three documents, and then the log could not be
\* written: the call threw, with no result.
C35_Witness ==
    \E i \in DOMAIN inv :
        /\ inv[i].error = "log" /\ inv[i].pc = "thrown" /\ inv[i].op = "update"
        /\ inv[i].successCount = NDocs
        /\ inv[i].result = NoResult
        /\ \A d \in Docs : store[d].exists /\ store[d].data["status"] = "archived"

\* What the handlers of an invocation write to, and its writes under way.
Tally(r) ==
    [ successCount |-> r.successCount, failureCount |-> r.failureCount,
      processedCount |-> r.processedCount, failedDocIds |-> r.failedDocIds,
      createdIds |-> r.createdIds, logEntries |-> r.logEntries,
      pending |-> r.pending, openWriters |-> r.openWriters ]

\* The writes invocation r was notified of are the writes it enqueued.
OwnWrites(r) ==
    /\ Len(r.hist) = Len(r.enqueued)
    /\ {r.hist[k].key : k \in 1..Len(r.hist)} =
          (IF r.op = "create" THEN 1..Len(r.documents) ELSE Range(r.enqueued))

\* C36: of two invocations under way together, a completion notification of one
\* changes successCount, failureCount, processedCount, failedDocIds, the log and
\* the pending writes of that one alone, each has at most its own bulkWriter
\* open, and the outcome of each counts the writes it enqueued itself: as many
\* successes and failures as it was notified of.
C36_InvocationsShareNothing ==
    /\ [][\A i \in DOMAIN inv : \A j \in DOMAIN inv \ {i} :
             Len(inv'[i].hist) = Len(inv[i].hist) + 1 =>
                 /\ Tally(inv'[j]) = Tally(inv[j])
                 /\ inv'[j].hist = inv[j].hist
                 /\ inv'[i].processedCount = inv[i].processedCount + 1]_vars
    /\ [](\A i \in DOMAIN inv :
             LET r == inv[i]
             IN  /\ r.openWriters <= 1
                 /\ r.processedCount = Len(r.hist)
                 /\ r.successCount = Cardinality(Successes(r))
                 /\ r.failureCount = Cardinality(Failures(r))
                 /\ Outcome(r) /\ r.hist # <<>> =>
                       /\ OwnWrites(r)
                       /\ r.result.successCount = Cardinality(Successes(r))
                       /\ r.result.failureCount = Cardinality(Failures(r)))

\* Two invocations are both waiting for their bulkWriter to drain: one has been
\* notified of a success, the other of a failure, and each still has a write
\* pending.
C36_Witness ==
    \E i \in DOMAIN inv : \E j \in DOMAIN inv \ {i} :
        /\ inv[i].pc = "drain" /\ inv[j].pc = "drain"
        /\ inv[i].pending # {} /\ inv[j].pending # {}
        /\ inv[i].successCount = 1 /\ inv[i].failureCount = 0
        /\ inv[j].successCount = 0 /\ inv[j].failureCount = 1

\* A step that leaves every invocation and the store as they are is a call of
\* the builder: collection(path) sets the path and empties the conditions,
\* where() appends one condition to the rest and leaves the path.  Every other
\* step, of preview, update, upsert, create or getFields, leaves path and
\* conditions as they are.
BuilderFrame ==
    IF inv' = inv /\ store' = store
    THEN \/ collectionPath' = Users /\ conditions' = <<>>
         \/ /\ collectionPath' = collectionPath
            /\ Len(conditions') = Len(conditions) + 1
            /\ SubSeq(conditions', 1, Len(conditions)) = conditions
            /\ conditions'[Len(conditions')] \in BuilderConditions
    ELSE collectionPath' = collectionPath /\ conditions' = conditions

\* An operation that starts queries the collection and the conditions the
\* BatchUpdater holds then, whatever was run on it before.
StartsFromBuilder(r, q) ==
    r.pc = "idle" /\ q.pc \in {"count", "fetch"} =>
        /\ q.query.conditions = conditions
        /\ q.plans = <<[collection |-> collectionPath, conditions |-> conditions]>>
        /\ q.matched = MatchSet(store, conditions)

\* C37: collection(path) sets the collection and clears the conditions; where()
\* appends one condition and changes nothing else; preview, update, upsert,
\* create and getFields leave collection and conditions unchanged, so the
\* conditions given before one operation are those of the next operation on the
\* same BatchUpdater unless the builder is called in between.
C37_BuilderStateKeptAcrossOperations ==
    /\ [][BuilderFrame]_vars
    /\ [][\A i \in DOMAIN inv : StartsFromBuilder(inv[i], inv'[i])]_vars
    /\ [](\A i \in DOMAIN inv :
             inv[i].pc = "returned" /\ inv[i].op = "getFields" =>
                 /\ Len(inv[i].result.values) = inv[i].pages[1]
                 /\ inv[i].nSessions = 0)

\* Two conditions were given, status == inactive and then tag == x; an update
\* ran on the one document that met both, and getFields, run next on the same
\* BatchUpdater, queried with the same two conditions and found none.
C37_Witness ==
    \E i \in DOMAIN inv : \E j \in DOMAIN inv \ {i} :
        /\ conditions = <<StatusIsInactive, TagIsX>>
        /\ Outcome(inv[i]) /\ inv[i].op = "update"
        /\ inv[i].plans[1].conditions = conditions
        /\ inv[i].result.successCount = 1
        /\ inv[j].pc = "returned" /\ inv[j].op = "getFields"
        /\ inv[j].plans[1].conditions = conditions
        /\ inv[j].result.values = <<>>
====
